---- MODULE Spec2Model ----
(***************************************************************************)
(* State-machine model of the cadsentinel ingestion-to-retrieval pipeline: *)
(* the ETL run of app/services/etl_dwg.py with its caller in               *)
(* app/api/routers/ingest.py, the embedding entry point of                 *)
(* app/services/embeddings.py, the searches of                             *)
(* app/services/drawing_search.py and the chat of                          *)
(* app/services/chat_drawing.py.                                           *)
(*                                                                         *)
(* Python strings are sequences of one-character strings, so that lower(), *)
(* strip() and the substring tests are computed and not assumed.  A JSON   *)
(* or column value is a record [t, s, n] whose tag t is "null", "str" or   *)
(* "num"; Python None is JNull.                                            *)
(***************************************************************************)
EXTENDS Integers, Sequences, FiniteSets, TLC

VARIABLES
    store,        \* committed rows of the database, one set per table
    sess,         \* rows as seen by the open session of the running ETL
    seq,          \* the next id of every table; a rolled-back run hands its ids back,
                  \* which only renumbers the rows later runs insert
    pc,           \* position of the ETL run: idle, files, parse, summary, embed, commit
    run,          \* local variables of the running ETL
    now,          \* logical clock: the number of ETL runs started (created_at)
    pre,          \* the committed rows when the current/last run began
    etl_result,   \* what the last finished run gave its caller
    prev_result,  \* what the successful run before the last successful one returned
    last_run,     \* inputs, collaborator outputs and result of the last successful run
    mode,         \* security_mode._mode
    EMBEDDING_MODEL, \* embeddings.EMBEDDING_MODEL, fixed when the module is imported
    mode_call,    \* the last call of set_security_mode
    written,      \* per version: worklist and vectors of the run that last committed it
    chunks,       \* the embeddings table as a similarity query reads it
    search_req,   \* the last search request
    search_rows,  \* the rows the database returned for it
    search_results, \* the results returned to the caller
    chat_req,     \* the chat request being served
    chat,         \* position and local variables of chat_with_drawing
    chat_response, \* what the chat endpoint gave its caller
    extraction,   \* the last call of _extract_dimensions_and_notes and the flush after it
    embed_call,   \* the last call of embed_texts
    conc          \* the database, its sequences and the transactions of concurrent runs

etl_vars == <<store, sess, seq, pc, run, now, pre, etl_result, prev_result, last_run, written>>
mode_vars == <<mode, EMBEDDING_MODEL, mode_call>>
search_vars == <<chunks, search_req, search_rows, search_results>>
chat_vars == <<chat_req, chat, chat_response>>
unit_vars == <<extraction, embed_call>>
conc_vars == <<conc>>
non_etl_vars == <<mode_vars, search_vars, chat_vars, unit_vars, conc_vars>>

(***************************************************************************)
(* Bounds of the model.                                                    *)
(***************************************************************************)
MaxRuns == 2          \* ETL runs started in one behaviour
EMBEDDING_DIM == 2    \* width D of the vector column, scaled down from 1536

Hashes == {"h1", "h2"}          \* SHA-256 document ids of uploaded files
Filenames == {"a.dwg", "b.dwg"}          \* upload file names

(***************************************************************************)
(* Strings and JSON values.                                                *)
(***************************************************************************)
JNull == [t |-> "null", s |-> <<>>, n |-> 0]
JStr(s) == [t |-> "str", s |-> s, n |-> 0]
JNum(n) == [t |-> "num", s |-> <<>>, n |-> n]

\* Python truthiness of a value: None, "" and 0 are falsy.
Truthy(v) ==
    CASE v.t = "str" -> v.s # <<>>
      [] v.t = "num" -> v.n # 0
      [] OTHER -> FALSE

UpperCase == <<"A","B","C","D","E","F","G","H","I","J","K","L","M",
               "N","O","P","Q","R","S","T","U","V","W","X","Y","Z">>
LowerCase == <<"a","b","c","d","e","f","g","h","i","j","k","l","m",
               "n","o","p","q","r","s","t","u","v","w","x","y","z">>

LowerChar(c) ==
    IF \E i \in 1..26 : UpperCase[i] = c
    THEN LowerCase[CHOOSE i \in 1..26 : UpperCase[i] = c]
    ELSE c

\* str.lower()
Lower(s) == [i \in 1..Len(s) |-> LowerChar(s[i])]

\* needle in hay
Contains(hay, needle) ==
    \E i \in 0..(Len(hay) - Len(needle)) :
        \A j \in 1..Len(needle) : hay[i + j] = needle[j]

IsSpace(c) == c \in {" ", "\t", "\n"}

RECURSIVE LStrip(_)
LStrip(s) == IF s # <<>> /\ IsSpace(Head(s)) THEN LStrip(Tail(s)) ELSE s

RECURSIVE RStrip(_)
RStrip(s) ==
    IF s # <<>> /\ IsSpace(s[Len(s)]) THEN RStrip(SubSeq(s, 1, Len(s) - 1)) ELSE s

\* str.strip()
Strip(s) == RStrip(LStrip(s))

Digits == <<"0","1","2","3","4","5","6","7","8","9">>

\* str(x) of a Float column value holding a small whole number: 5 -> "5.0"
FloatStr(n) == <<Digits[n + 1], ".", "0">>

\* str(x) of a string column is the string itself
StrOf(v) == IF v.t = "num" THEN FloatStr(v.n) ELSE v.s

(***************************************************************************)
(* Inputs of an ETL run: the parsed drawing structure (the JSON file) and  *)
(* the outcomes of the collaborators.  An entity record carries every key  *)
(* of the exporter; a key the record lacks holds JAbsent.                  *)
(***************************************************************************)
JAbsent == [t |-> "absent", s |-> <<>>, n |-> 0]

Entity(type, index, text, value, units) ==
    [type |-> type, index |-> index, raw_type |-> JAbsent, layer |-> JAbsent,
     handle |-> JAbsent, owner_handle |-> JAbsent, text |-> text,
     value |-> value, units |-> units, geometry |-> JAbsent]

\* dict.get(key) and dict.get(key, default) on an entity record
Get(ent, key) == IF ent[key].t = "absent" THEN JNull ELSE ent[key]
GetDefault(ent, key, default) == IF ent[key].t = "absent" THEN default ELSE ent[key]

DimR5 == Entity(JStr(<<"D","I","M","E","N","S","I","O","N">>), JNum(0),
                JStr(<<"R">>), JNum(5), JStr(<<"m","m">>))
DimBare == Entity(JStr(<<"D","i","m">>), JNum(1), JAbsent, JNull, JAbsent)
TextNote == Entity(JStr(<<"M","T","E","X","T">>), JNum(2),
                   JStr(<<" ","t","o","l"," ">>), JAbsent, JAbsent)
TextBlank == Entity(JStr(<<"T","E","X","T">>), JNum(3), JStr(<<" ">>), JAbsent, JAbsent)
Line == Entity(JStr(<<"L","I","N","E">>), JNum(4), JAbsent, JAbsent, JAbsent)

\* json.load(f): a document with or without the "entities" key
JsonData(has, ents) == [has_entities |-> has, entities |-> ents]

ParsedInputs ==
    { JsonData(FALSE, <<>>),
      JsonData(TRUE, <<DimR5, Line, DimBare, TextNote, TextBlank>>) }

\* what summary_provider.generate_summary() gives: it raises, or a dict
SummaryOut(raised, long, short) == [raised |-> raised, long |-> long, short |-> short]

SummaryOutcomes ==
    { SummaryOut(TRUE, JNull, JNull),
      SummaryOut(FALSE, JStr(<<"L">>), JNull),
      SummaryOut(FALSE, JStr(<<"L">>), JStr(<<"S">>)) }

\* file types whose path is given and whose stat() succeeds: the endpoint
\* passes pdf_path = None after a failed render, and a stat() may fail
ArtifactChoices ==
    { {"dwg", "json", "png_thumb"} }

FileTypes == <<"dwg", "dxf", "json", "pdf", "png_full", "png_thumb">>

(***************************************************************************)
(* The database: one set of rows per table.                                *)
(***************************************************************************)
EmptyStore ==
    [drawings |-> {}, versions |-> {}, files |-> {}, dimensions |-> {},
     notes |-> {}, summaries |-> {}, embeddings |-> {}]

InitSeq ==
    [drawings |-> 1, versions |-> 1, files |-> 1, dimensions |-> 1,
     notes |-> 1, summaries |-> 1, embeddings |-> 1]

\* a flush that inserts none of the pending rows
WithIds_none(pending, first) == {}

\* INSERT of pending rows in the order they were added: ids from the sequence
WithIds(pending, first) ==
    { [r \in {"id"} \cup DOMAIN pending[i] |->
          IF r = "id" THEN first + i - 1 ELSE pending[i][r]] : i \in 1..Len(pending) }

\* uq_drawing_versions_active: UNIQUE (drawing_id, is_active)
UqActiveViolated(versions) ==
    \E v, w \in versions :
        v.id # w.id /\ v.drawing_id = w.drawing_id /\ v.is_active = w.is_active

\* Drawing.document_id_sha and DrawingVersion.dwg_sha256 are UNIQUE
UqHashViolated(s) ==
    \/ \E d, e \in s.drawings : d.id # e.id /\ d.document_id_sha = e.document_id_sha
    \/ \E v, w \in s.versions : v.id # w.id /\ v.dwg_sha256 = w.dwg_sha256

\* every enumeration of a finite set: the row order of a SELECT without ORDER BY
RECURSIVE Orderings(_)
Orderings(S) ==
    IF S = {} THEN {<<>>}
    ELSE UNION { { <<x>> \o rest : rest \in Orderings(S \ {x}) } : x \in S }

(***************************************************************************)
(* Entity extraction (etl_dwg._extract_dimensions_and_notes).              *)
(***************************************************************************)
Tok_pm == "<plus-minus>"    \* the character U+00B1
Tok_dia == "<diameter>"     \* the character U+2300

ToleranceTokens ==
    { <<Tok_pm>>, <<"t","o","l","e","r","a","n","c","e">>, <<"t","o","l">> }
GdtTokens ==
    { <<Tok_dia>>, <<"g","d","&","t">>,
      <<"t","r","u","e"," ","p","o","s","i","t","i","o","n">>,
      <<"f","l","a","t","n","e","s","s">> }

\* (ent.get("text") or "").lower() raises when the text is truthy and no string
InferNoteTypeRaises(ent) == Truthy(Get(ent, "text")) /\ Get(ent, "text").t # "str"

\* _infer_note_type with the GD&T markers looked for first
_infer_note_type_gdt_first(ent) ==
    LET got == Get(ent, "text")
        raw_text == IF Truthy(got) THEN Lower(got.s) ELSE <<>>
    IN  IF \E tok \in GdtTokens : Contains(raw_text, tok) THEN "gdandt"
        ELSE IF \E tok \in ToleranceTokens : Contains(raw_text, tok) THEN "tolerance"
        ELSE "general"

_infer_note_type(ent) ==
    LET got == Get(ent, "text")
        raw_text == IF Truthy(got) THEN Lower(got.s) ELSE <<>>
    IN  IF \E tok \in ToleranceTokens : Contains(raw_text, tok) THEN "tolerance"
        ELSE IF \E tok \in GdtTokens : Contains(raw_text, tok) THEN "gdandt"
        ELSE "general"

DimensionOf(version_id, ent, t) ==
    [drawing_version_id |-> version_id, json_index |-> Get(ent, "index"),
     dim_type |-> Get(ent, "type"), raw_type_code |-> Get(ent, "raw_type"),
     layer |-> Get(ent, "layer"), handle |-> Get(ent, "handle"),
     owner_handle |-> Get(ent, "owner_handle"), dim_text |-> Get(ent, "text"),
     dim_value |-> Get(ent, "value"), units |-> Get(ent, "units"),
     geometry |-> Get(ent, "geometry"), created_at |-> t]

NoteOf(version_id, ent, t) ==
    [drawing_version_id |-> version_id, json_index |-> Get(ent, "index"),
     note_type |-> _infer_note_type(ent),
     text |-> GetDefault(ent, "text", JStr(<<>>)),
     layer |-> Get(ent, "layer"), handle |-> Get(ent, "handle"),
     geometry |-> Get(ent, "geometry"), created_at |-> t]

\* one turn of the loop over the entities; acc.raised once an exception escaped
ExtractOne(acc, version_id, ent, t) ==
    LET tv == GetDefault(ent, "type", JStr(<<>>))
    IN  IF acc.raised THEN acc
        ELSE IF tv.t # "str" THEN [acc EXCEPT !.raised = TRUE]
        ELSE LET ent_type == Lower(tv.s)
             IN  IF Contains(ent_type, <<"d","i","m">>)
                 THEN [acc EXCEPT !.dims = Append(@, DimensionOf(version_id, ent, t))]
                 ELSE IF Contains(ent_type, <<"t","e","x","t">>)
                 THEN IF InferNoteTypeRaises(ent)
                      THEN [acc EXCEPT !.raised = TRUE]
                      ELSE [acc EXCEPT !.notes = Append(@, NoteOf(version_id, ent, t))]
                 ELSE acc

RECURSIVE ExtractFrom(_, _, _, _)
ExtractFrom(acc, version_id, entities, t) ==
    IF entities = <<>> THEN acc
    ELSE ExtractFrom(ExtractOne(acc, version_id, Head(entities), t),
                     version_id, Tail(entities), t)

\* the rows db.add()ed, in order; dims and notes counted are their lengths
_extract_dimensions_and_notes(version_id, json_data, t) ==
    LET entities == IF json_data.has_entities THEN json_data.entities ELSE <<>>
    IN  ExtractFrom([raised |-> FALSE, dims |-> <<>>, notes |-> <<>>],
                    version_id, entities, t)

_guess_mime(file_type) ==
    CASE file_type = "dwg" -> "application/acad"
      [] file_type = "dxf" -> "application/dxf"
      [] file_type = "pdf" -> "application/pdf"
      [] file_type \in {"png_full", "png_thumb"} -> "image/png"
      [] file_type = "json" -> "application/json"
      [] OTHER -> "application/octet-stream"

\* the six _add_file calls: a row for every path that is given and stat()s
RECURSIVE AddFiles(_, _, _, _)
AddFiles(types, ok, version_id, t) ==
    IF types = <<>> THEN <<>>
    ELSE LET rest == AddFiles(Tail(types), ok, version_id, t)
             ft == Head(types)
         IN  IF ft \in ok
             THEN <<[drawing_version_id |-> version_id, file_type |-> ft,
                     mime_type |-> _guess_mime(ft), created_at |-> t]>> \o rest
             ELSE rest

(***************************************************************************)
(* The embedding worklist (etl_dwg._generate_all_embeddings, part 1).      *)
(***************************************************************************)
Piece(source_type, ref_id, text) ==
    [source_type |-> source_type, ref_id |-> ref_id, text |-> text]

SummaryPieces(summary_row) ==
    (IF Truthy(summary_row.long_form_description)
     THEN <<Piece("summary", summary_row.id, summary_row.long_form_description.s)>>
     ELSE <<>>)
    \o
    (IF Truthy(summary_row.short_description)
     THEN <<Piece("summary_short", summary_row.id, summary_row.short_description.s)>>
     ELSE <<>>)

\* "".join(text_parts).strip() of one Dimension row
DimText(dim) ==
    Strip((IF Truthy(dim.dim_text) THEN StrOf(dim.dim_text) ELSE <<>>)
          \o (IF dim.dim_value.t # "null" THEN <<"=", " ">> \o StrOf(dim.dim_value) ELSE <<>>)
          \o (IF Truthy(dim.units) THEN <<" ">> \o StrOf(dim.units) ELSE <<>>))

RECURSIVE DimPieces(_)
DimPieces(dim_rows) ==
    IF dim_rows = <<>> THEN <<>>
    ELSE LET dim == Head(dim_rows)
             text == DimText(dim)
         IN  (IF text # <<>> THEN <<Piece("dimension", dim.id, text)>> ELSE <<>>)
             \o DimPieces(Tail(dim_rows))

RECURSIVE NotePieces(_)
NotePieces(note_rows) ==
    IF note_rows = <<>> THEN <<>>
    ELSE LET note == Head(note_rows)
         IN  (IF Truthy(note.text) /\ Strip(note.text.s) # <<>>
              THEN <<Piece("note", note.id, Strip(note.text.s))>> ELSE <<>>)
             \o NotePieces(Tail(note_rows))

ContentPieces(summary_row, dim_rows, note_rows) ==
    SummaryPieces(summary_row) \o DimPieces(dim_rows) \o NotePieces(note_rows)

(***************************************************************************)
(* Security mode and the embedding entry point                             *)
(* (security_mode.py, embeddings.py).                                      *)
(***************************************************************************)
SecurityModes == {"secure", "not_secure"}

get_effective_providers(m) ==
    IF m = "secure"
    THEN [chat |-> "ollama", embedding |-> "ollama"]
    ELSE [chat |-> "openai", embedding |-> "openai"]

get_current_embedding_model_name(m) ==
    IF get_effective_providers(m).embedding = "openai"
    THEN "openai_embedding_model"
    ELSE "ollama_embedding_model"

\* What a backend may answer to n texts: an error, or a list of vectors.  The
\* OpenAI list has as many entries as the service sent back; the Ollama loop
\* appends one vector per text.  The i-th vector holds i in every component.
Response(raised, vectors) == [raised |-> raised, vectors |-> vectors]

BackendResponses(provider, n) ==
    LET counts == IF provider = "openai" THEN {c \in {n - 1, n, n + 1} : c >= 0} ELSE {n}
        widths == (EMBEDDING_DIM - 1)..(EMBEDDING_DIM + 1)
        Vectors(c, w) == [i \in 1..c |-> [j \in 1..w |-> i]]
    IN  {Response(TRUE, <<>>)}
        \cup { Response(FALSE, Vectors(n, w)) : w \in widths }
        \cup { Response(FALSE, Vectors(c, EMBEDDING_DIM)) : c \in counts }

\* what both backends are sent for the texts: [str(t) for t in texts], and
\* str(t) as the prompt of each request
BackendInput(texts) == [i \in 1..Len(texts) |-> texts[i]]

\* vectors = [d.embedding for d in resp.data]
_embed_openai(texts, resp) ==
    IF texts = <<>> THEN <<>> ELSE [i \in 1..Len(resp.vectors) |-> resp.vectors[i]]

\* vectors.append(emb) for every text
_embed_ollama(texts, resp) ==
    IF texts = <<>> THEN <<>> ELSE [i \in 1..Len(resp.vectors) |-> resp.vectors[i]]

\* the vectors embed_texts returns when the backend did not raise
embed_texts(m, texts, resp) ==
    IF get_effective_providers(m).embedding = "openai"
    THEN _embed_openai(texts, resp)
    ELSE _embed_ollama(texts, resp)

(***************************************************************************)
(* The ETL run (etl_dwg.run_drawing_etl) under its caller                  *)
(* (ingest.ingest_dwg_endpoint), one action per pipeline stage.            *)
(***************************************************************************)
IdleRun ==
    [document_id |-> "", source_filename |-> "", drawing_id |-> 0, version_id |-> 0,
     reingest |-> FALSE, artifacts |-> {}, pending_files |-> <<>>,
     pending_dims |-> <<>>,
     pending_notes |-> <<>>, data |-> JsonData(FALSE, <<>>),
     dims_inserted |-> 0, notes_inserted |-> 0,
     summary_out |-> SummaryOut(TRUE, JNull, JNull), summary_id |-> 0,
     summary_backend |-> "", summary_mode |-> "",
     content_pieces |-> <<>>, embed_calls |-> 0, provider |-> "", embed_mode |-> "",
     response |-> Response(TRUE, <<>>), vectors |-> <<>>,
     pending_embeddings |-> <<>>, embeddings_created |-> 0, seq0 |-> InitSeq]

NoResult ==
    [status |-> "none", run_no |-> 0, drawing_id |-> 0, drawing_version_id |-> 0,
     num_dimensions |-> 0, num_notes |-> 0, summary_id |-> 0, num_embeddings |-> 0,
     reingest |-> FALSE, repeat |-> FALSE, stage |-> ""]

\* IngestResponse(success=False, message="ETL failed."); reingest and stage
\* are bookkeeping: the branch the run took and the stage that raised
FailedResult(t, r, stage) ==
    [NoResult EXCEPT !.status = "failed", !.run_no = t, !.reingest = r.reingest,
                     !.stage = stage]

\* ETLResult(...) wrapped in IngestResponse(success=True)
\* reingest and repeat are bookkeeping: the run found its version, and the run
\* had the inputs and collaborator outputs of the last successful run
ETLResult(t, r, repeat) ==
    [status |-> "ok", run_no |-> t, drawing_id |-> r.drawing_id,
     drawing_version_id |-> r.version_id, num_dimensions |-> r.dims_inserted,
     num_notes |-> r.notes_inserted, summary_id |-> r.summary_id,
     num_embeddings |-> r.embeddings_created,
     reingest |-> r.reingest, repeat |-> repeat, stage |-> "done"]

RunInputs(r) ==
    [document_id |-> r.document_id, artifacts |-> r.artifacts, data |-> r.data,
     summary_out |-> r.summary_out, response |-> r.response]

RunRecord(r, result) ==
    [inputs |-> RunInputs(r), content_pieces |-> r.content_pieces, result |-> result]

\* the except branch committing what the session holds instead of rolling back
EtlFailed_commit(r, t) ==
    /\ pc' = "idle"
    /\ store' = sess
    /\ sess' = sess
    /\ seq' = seq
    /\ run' = IdleRun
    /\ etl_result' = FailedResult(t, r, pc)
    /\ UNCHANGED <<written, prev_result, last_run>>

\* the except branch of the endpoint: db.rollback(), then the failure response
EtlFailed(r, t) ==
    /\ pc' = "idle"
    /\ sess' = store
    /\ seq' = r.seq0
    /\ run' = IdleRun
    /\ etl_result' = FailedResult(t, r, pc)
    /\ UNCHANGED <<store, written, prev_result, last_run>>

\* Reingest without the delete of the Dimension rows
Reingest_keep_dimensions(s, version_id, source_filename) ==
    [s EXCEPT
        !.versions = { IF v.id = version_id
                       THEN [v EXCEPT !.is_active = TRUE,
                                      !.source_filename = source_filename]
                       ELSE v : v \in @ },
        !.files = { r \in @ : r.drawing_version_id # version_id },
        !.notes = { r \in @ : r.drawing_version_id # version_id },
        !.summaries = { r \in @ : r.drawing_version_id # version_id },
        !.embeddings = { r \in @ : r.drawing_version_id # version_id }]

\* Reingest without the delete of the DrawingFile rows
Reingest_keep_files(s, version_id, source_filename) ==
    [s EXCEPT
        !.versions = { IF v.id = version_id
                       THEN [v EXCEPT !.is_active = TRUE,
                                      !.source_filename = source_filename]
                       ELSE v : v \in @ },
        !.dimensions = { r \in @ : r.drawing_version_id # version_id },
        !.notes = { r \in @ : r.drawing_version_id # version_id },
        !.summaries = { r \in @ : r.drawing_version_id # version_id },
        !.embeddings = { r \in @ : r.drawing_version_id # version_id }]

\* Reingest without the delete of the Embedding rows
Reingest_keep_embeddings(s, version_id, source_filename) ==
    [s EXCEPT
        !.versions = { IF v.id = version_id
                       THEN [v EXCEPT !.is_active = TRUE,
                                      !.source_filename = source_filename]
                       ELSE v : v \in @ },
        !.files = { r \in @ : r.drawing_version_id # version_id },
        !.dimensions = { r \in @ : r.drawing_version_id # version_id },
        !.notes = { r \in @ : r.drawing_version_id # version_id },
        !.summaries = { r \in @ : r.drawing_version_id # version_id }]

\* the re-ingest branch: keep the version row, delete its derived rows
Reingest(s, version_id, source_filename) ==
    [s EXCEPT
        !.versions = { IF v.id = version_id
                       THEN [v EXCEPT !.is_active = TRUE,
                                      !.source_filename = source_filename]
                       ELSE v : v \in @ },
        !.files = { r \in @ : r.drawing_version_id # version_id },
        !.dimensions = { r \in @ : r.drawing_version_id # version_id },
        !.notes = { r \in @ : r.drawing_version_id # version_id },
        !.summaries = { r \in @ : r.drawing_version_id # version_id },
        !.embeddings = { r \in @ : r.drawing_version_id # version_id }]

\* FirstIngest with the version hash taken from the file name
FirstIngest_filename_hash(s, drawing_id, version_id, document_id, source_filename, t) ==
    [s EXCEPT
        !.versions =
            { IF v.drawing_id = drawing_id /\ v.is_active
              THEN [v EXCEPT !.is_active = FALSE] ELSE v : v \in @ }
            \cup { [id |-> version_id, drawing_id |-> drawing_id,
                    dwg_sha256 |-> source_filename, source_filename |-> source_filename,
                    is_active |-> TRUE, ingested_at |-> t] }]

\* FirstIngest with the new row left inactive
FirstIngest_inactive(s, drawing_id, version_id, document_id, source_filename, t) ==
    [s EXCEPT
        !.versions =
            { IF v.drawing_id = drawing_id /\ v.is_active
              THEN [v EXCEPT !.is_active = FALSE] ELSE v : v \in @ }
            \cup { [id |-> version_id, drawing_id |-> drawing_id,
                    dwg_sha256 |-> document_id, source_filename |-> source_filename,
                    is_active |-> FALSE, ingested_at |-> t] }]

\* the first-ingest branch: deactivate the drawing's active versions, insert
FirstIngest(s, drawing_id, version_id, document_id, source_filename, t) ==
    [s EXCEPT
        !.versions =
            { IF v.drawing_id = drawing_id /\ v.is_active
              THEN [v EXCEPT !.is_active = FALSE] ELSE v : v \in @ }
            \cup { [id |-> version_id, drawing_id |-> drawing_id,
                    dwg_sha256 |-> document_id, source_filename |-> source_filename,
                    is_active |-> TRUE, ingested_at |-> t] }]

\* settings.ai_provider: the default of app/config.py
ai_provider == "openai"

\* build_summary_provider: the backend of the summarizer the endpoint builds
build_summary_provider(provider_name) ==
    IF provider_name = "openai" THEN "openai" ELSE "ollama"

\* steps 1 and 2: the Drawing and the DrawingVersion of document_id
ResolveVersion(document_id, source_filename) ==
    /\ pc = "idle"
    /\ now < MaxRuns
    /\ LET t == now + 1
           found == {d \in store.drawings : d.document_id_sha = document_id}
           drawing_id == IF found = {} THEN seq.drawings
                         ELSE (CHOOSE d \in found : TRUE).id
           s1 == IF found = {}
                 THEN [store EXCEPT !.drawings = @ \cup
                          {[id |-> drawing_id, document_id_sha |-> document_id,
                            created_at |-> t]}]
                 ELSE store
           q1 == IF found = {} THEN [seq EXCEPT !.drawings = @ + 1] ELSE seq
           existing == {v \in s1.versions : v.dwg_sha256 = document_id}
           reingest == existing # {}
           version_id == IF reingest THEN (CHOOSE v \in existing : TRUE).id
                         ELSE q1.versions
           s2 == IF reingest THEN Reingest(s1, version_id, source_filename)
                 ELSE FirstIngest(s1, drawing_id, version_id, document_id,
                                  source_filename, t)
           q2 == IF reingest THEN q1 ELSE [q1 EXCEPT !.versions = @ + 1]
           r == [IdleRun EXCEPT !.document_id = document_id,
                                !.source_filename = source_filename,
                                !.drawing_id = drawing_id,
                                !.version_id = version_id,
                                !.reingest = reingest,
                                !.seq0 = seq]
       IN  /\ now' = t
           /\ pre' = store
           /\ IF UqActiveViolated(s2.versions) \/ UqHashViolated(s2)
              THEN EtlFailed(r, t)
              ELSE /\ sess' = s2
                   /\ seq' = q2
                   /\ run' = r
                   /\ pc' = "files"
                   /\ UNCHANGED <<store, etl_result, prev_result, last_run, written>>
    /\ UNCHANGED non_etl_vars

\* step 3: the six _add_file calls; a failing stat() is logged and skipped
RegisterFiles(ok) ==
    /\ pc = "files"
    /\ run' = [run EXCEPT !.artifacts = ok,
                           !.pending_files = AddFiles(FileTypes, ok, run.version_id, now)]
    /\ pc' = "parse"
    /\ UNCHANGED <<store, sess, seq, now, pre, etl_result, prev_result, last_run, written>>
    /\ UNCHANGED non_etl_vars

\* step 4: json.load of the parsed structure, then the entity loop
ParseAndExtract(readable, data) ==
    /\ pc = "parse"
    /\ LET ex == _extract_dimensions_and_notes(run.version_id, data, now)
           r == [run EXCEPT !.data = data]
       IN  IF ~readable \/ ex.raised
           THEN EtlFailed(run, now)
           ELSE /\ run' = [r EXCEPT !.pending_dims = ex.dims,
                                    !.pending_notes = ex.notes,
                                    !.dims_inserted = Len(ex.dims),
                                    !.notes_inserted = Len(ex.notes)]
                /\ pc' = "summary"
                /\ UNCHANGED <<store, sess, seq, etl_result, prev_result, last_run, written>>
    /\ UNCHANGED <<now, pre>>
    /\ UNCHANGED non_etl_vars

\* Note.text is NOT NULL: the INSERT of such a row raises IntegrityError
NotNullViolated(r) == \E i \in 1..Len(r.pending_notes) : r.pending_notes[i].text.t = "null"

\* step 5: the summarizer call, the DrawingSummary row, and db.flush(), which
\* inserts the pending file, dimension and note rows as well
Summarize(out) ==
    /\ pc = "summary"
    /\ LET r == [run EXCEPT !.summary_out = out,
                             !.summary_backend = build_summary_provider(ai_provider),
                             !.summary_mode = mode]
           summary_row ==
               [id |-> seq.summaries, drawing_version_id |-> run.version_id,
                long_form_description |-> out.long, short_description |-> out.short,
                model_name |-> "summary_model", prompt_version |-> "1.0",
                created_at |-> now]
           uq_summary == \E x \in sess.summaries : x.drawing_version_id = run.version_id
       IN  IF out.raised \/ NotNullViolated(run) \/ out.long.t = "null" \/ uq_summary
           THEN EtlFailed(r, now)
           ELSE /\ sess' = [sess EXCEPT
                      !.files = @ \cup WithIds(run.pending_files, seq.files),
                      !.dimensions = @ \cup WithIds(run.pending_dims, seq.dimensions),
                      !.notes = @ \cup WithIds(run.pending_notes, seq.notes),
                      !.summaries = @ \cup {summary_row}]
                /\ seq' = [seq EXCEPT
                      !.files = @ + Len(run.pending_files),
                      !.dimensions = @ + Len(run.pending_dims),
                      !.notes = @ + Len(run.pending_notes),
                      !.summaries = @ + 1]
                /\ run' = [r EXCEPT !.summary_id = summary_row.id,
                                    !.pending_files = <<>>,
                                    !.pending_dims = <<>>,
                                    !.pending_notes = <<>>]
                /\ pc' = "embed"
                /\ UNCHANGED <<store, etl_result, prev_result, last_run, written>>
    /\ UNCHANGED <<now, pre>>
    /\ UNCHANGED non_etl_vars

EmbeddingRow(version_id, piece, vec, t) ==
    [drawing_version_id |-> version_id, source_type |-> piece.source_type,
     source_ref_id |-> piece.ref_id, content |-> piece.text, embedding |-> vec,
     model_name |-> EMBEDDING_MODEL, created_at |-> t]

\* part 3 of _generate_all_embeddings: zip(content_pieces, vectors)
EmbeddingRows(version_id, content_pieces, vectors, t) ==
    [i \in 1..Len(content_pieces) |->
        EmbeddingRow(version_id, content_pieces[i], vectors[i], t)]

\* zip() without the length check: rows for the shorter of the two lists
_generate_all_embeddings_zip(version_id, content_pieces, vectors, t) ==
    LET n == IF Len(vectors) < Len(content_pieces) THEN Len(vectors)
             ELSE Len(content_pieces)
    IN  EmbeddingRows(version_id, SubSeq(content_pieces, 1, n), vectors, t)

\* the rows _generate_all_embeddings adds for what embed_texts returned
_generate_all_embeddings(version_id, content_pieces, vectors, t) ==
    IF Len(vectors) # Len(content_pieces)
    THEN <<>>
    ELSE EmbeddingRows(version_id, content_pieces, vectors, t)

\* step 6: the worklist, one embed_texts call, the Embedding rows
GenerateEmbeddings ==
    /\ pc = "embed"
    /\ \E dim_rows \in Orderings({d \in sess.dimensions :
                                    d.drawing_version_id = run.version_id}),
          note_rows \in Orderings({x \in sess.notes :
                                    x.drawing_version_id = run.version_id}) :
        LET summary_row == CHOOSE x \in sess.summaries : x.id = run.summary_id
            content_pieces == ContentPieces(summary_row, dim_rows, note_rows)
            texts == [i \in 1..Len(content_pieces) |-> content_pieces[i].text]
            provider == get_effective_providers(mode).embedding
        IN  IF content_pieces = <<>>
            THEN /\ run' = [run EXCEPT !.embeddings_created = 0]
                 /\ pc' = "commit"
                 /\ UNCHANGED <<store, sess, seq, etl_result, prev_result, last_run,
                                written>>
            ELSE \E resp \in BackendResponses(provider, Len(texts)) :
                    LET r == [run EXCEPT !.content_pieces = content_pieces,
                                         !.embed_calls = @ + 1,
                                         !.provider = provider,
                                         !.embed_mode = mode,
                                         !.response = resp]
                        vectors == embed_texts(mode, texts, resp)
                        rows == _generate_all_embeddings(run.version_id,
                                    content_pieces, vectors, now)
                    IN  IF resp.raised
                        THEN EtlFailed(r, now)
                        ELSE /\ run' = [r EXCEPT !.vectors = vectors,
                                                 !.pending_embeddings = rows,
                                                 !.embeddings_created = Len(rows)]
                             /\ pc' = "commit"
                             /\ UNCHANGED <<store, sess, seq, etl_result,
                                            prev_result, last_run, written>>
    /\ UNCHANGED <<now, pre>>
    /\ UNCHANGED non_etl_vars

\* the embedding column is Vector(D): a vector of another width is rejected
VectorColumnViolated(rows) ==
    \E i \in 1..Len(rows) : Len(rows[i].embedding) # EMBEDDING_DIM

\* step 7: db.commit() inserts the pending Embedding rows and commits; on
\* SQLAlchemyError the run rolls back and re-raises
Commit(db_ok) ==
    /\ pc = "commit"
    /\ IF ~db_ok \/ VectorColumnViolated(run.pending_embeddings)
       THEN EtlFailed(run, now)
       ELSE LET committed == [sess EXCEPT !.embeddings =
                                 @ \cup WithIds(run.pending_embeddings, seq.embeddings)]
                repeat == last_run.result.status = "ok"
                          /\ last_run.inputs = RunInputs(run)
                result == ETLResult(now, run, repeat)
            IN  /\ store' = committed
                /\ sess' = committed
                /\ seq' = [seq EXCEPT !.embeddings = @ + Len(run.pending_embeddings)]
                /\ written' =
                      { w \in written : w.version_id # run.version_id }
                      \cup { [version_id |-> run.version_id,
                              content_pieces |-> run.content_pieces,
                              vectors |-> run.vectors,
                              provider |-> run.provider] }
                /\ pc' = "idle"
                /\ run' = IdleRun
                /\ etl_result' = result
                /\ prev_result' = last_run.result
                /\ last_run' = RunRecord(run, result)
    /\ UNCHANGED <<now, pre>>
    /\ UNCHANGED non_etl_vars

NoRun == RunRecord(IdleRun, NoResult)

non_conc_vars == <<etl_vars, mode_vars, search_vars, chat_vars, unit_vars>>
vars == <<etl_vars, mode_vars, search_vars, chat_vars, unit_vars, conc_vars>>

\* an empty database and no run in flight
EtlInit ==
    /\ store = EmptyStore
    /\ sess = EmptyStore
    /\ seq = InitSeq
    /\ pc = "idle"
    /\ run = IdleRun
    /\ now = 0
    /\ pre = EmptyStore
    /\ etl_result = NoResult
    /\ prev_result = NoResult
    /\ last_run = NoRun
    /\ written = {}

\* _mode is set from settings.chat_provider_name when the process starts, and
\* EMBEDDING_MODEL is computed once, at import, from that mode
NoModeCall == [mode |-> "", raised |-> FALSE, before |-> ""]

ModeInit ==
    /\ mode \in SecurityModes
    /\ EMBEDDING_MODEL = get_current_embedding_model_name(mode)
    /\ mode_call = NoModeCall

NoRequest ==
    [kind |-> "none", top_k |-> 0, has_threshold |-> FALSE, score_threshold |-> 0,
     alpha |-> 0, version_filter |-> 0, source_types |-> {}, status |-> "none"]

SearchInit ==
    /\ chunks = {}
    /\ search_req = NoRequest
    /\ search_rows = <<>>
    /\ search_results = <<>>

NoChatRequest ==
    [drawing_version_id |-> 0, document_id |-> "", max_summary_chunks |-> 0,
     max_note_chunks |-> 0, max_dimension_chunks |-> 0]

ChatIdle ==
    [pc |-> "idle", drawing_version_id |-> 0, document_id |-> "",
     summary_items |-> <<>>, note_items |-> <<>>, dim_items |-> <<>>,
     embed_calls |-> 0, answer_calls |-> 0, queried |-> {},
     embed_provider |-> "", embed_mode |-> "", answer_provider |-> "", answer_mode |-> ""]

NoChatResponse ==
    [status |-> "none", assistant_reply |-> "", drawing_version_id |-> 0,
     document_id |-> "", contexts |-> <<>>]

ChatInit ==
    /\ chat_req = NoChatRequest
    /\ chat = ChatIdle
    /\ chat_response = NoChatResponse

NoExtraction ==
    [done |-> FALSE, data |-> JsonData(FALSE, <<>>), raised |-> FALSE,
     dims |-> <<>>, notes |-> <<>>, flush_raised |-> FALSE]

NoEmbedCall ==
    [done |-> FALSE, texts |-> <<>>, sent |-> <<>>, raised |-> FALSE, vectors |-> <<>>]

UnitInit ==
    /\ extraction = NoExtraction
    /\ embed_call = NoEmbedCall

\* the requests served at the same time, each with a session of its own
Procs == 1..2

\* a session with no transaction begun
NoTxn ==
    [pc |-> "idle", document_id |-> "", source_filename |-> "", drawing_id |-> 0,
     version_id |-> 0, reingest |-> FALSE, loaded |-> {}, ins |-> EmptyStore,
     del |-> EmptyStore, k |-> 0, waiting |-> FALSE, targets |-> {}, summary_id |-> 0,
     pending_embeddings |-> <<>>, t |-> 0, overlap |-> {}]

NoOutcome == [status |-> "none", cause |-> "", document_id |-> "", overlap |-> {}]

ConcInit ==
    conc = [db |-> EmptyStore, seq |-> InitSeq, txn |-> [p \in Procs |-> NoTxn],
            started |-> 0, result |-> [p \in Procs |-> NoOutcome]]

Init == EtlInit /\ ModeInit /\ SearchInit /\ ChatInit /\ UnitInit /\ ConcInit

Next ==
    \/ \E h \in Hashes, f \in Filenames : ResolveVersion(h, f)
    \/ \E ok \in ArtifactChoices : RegisterFiles(ok)
    \/ \E readable \in BOOLEAN, data \in ParsedInputs : ParseAndExtract(readable, data)
    \/ \E out \in SummaryOutcomes : Summarize(out)
    \/ GenerateEmbeddings
    \/ \E db_ok \in BOOLEAN : Commit(db_ok)

Spec == Init /\ [][Next]_vars

(***************************************************************************)
(* Properties of the ETL run.                                              *)
(***************************************************************************)
RowsOf(table, version_id) == { r \in table : r.drawing_version_id = version_id }

VersionsOf(s, d) == { v \in s.versions : v.drawing_id = d.id }
ActiveVersionsOf(s, d) == { v \in VersionsOf(s, d) : v.is_active }

\* C1: in every committed state every Document has at most one active
\* DocumentVersion, and a Document with a version has exactly one.
C1_SingleActive ==
    \A d \in store.drawings :
        /\ Cardinality(ActiveVersionsOf(store, d)) <= 1
        /\ VersionsOf(store, d) # {} => Cardinality(ActiveVersionsOf(store, d)) = 1

\* a re-ingestion of an already-seen hash has committed
C1_Witness ==
    /\ pc = "idle"
    /\ etl_result.status = "ok"
    /\ etl_result.reingest
    /\ \E d \in store.drawings : VersionsOf(store, d) # {}

\* C2: a successful run with the version hash, parsed input, summarizer output
\* and embedding output of the successful run before it returns the same
\* document id, version id, dimension count, note count and embedding count,
\* and leaves the document with exactly one active version.
C2_Idempotent ==
    (etl_result.status = "ok" /\ etl_result.repeat) =>
        /\ prev_result.status = "ok"
        /\ etl_result.drawing_id = prev_result.drawing_id
        /\ etl_result.drawing_version_id = prev_result.drawing_version_id
        /\ etl_result.num_dimensions = prev_result.num_dimensions
        /\ etl_result.num_notes = prev_result.num_notes
        /\ etl_result.num_embeddings = prev_result.num_embeddings
        /\ \A d \in store.drawings :
              d.id = etl_result.drawing_id =>
                  Cardinality(ActiveVersionsOf(store, d)) = 1

\* the same ingestion ran twice and wrote dimensions, notes and embeddings
C2_Witness ==
    /\ etl_result.status = "ok"
    /\ etl_result.repeat
    /\ etl_result.num_dimensions > 0
    /\ etl_result.num_notes > 0
    /\ etl_result.num_embeddings > 0

\* C3: after a successful re-ingestion the version's file, Dimension, Note,
\* Summary and EmbeddingChunk rows are exactly those the latest run wrote,
\* and the version owns exactly one Summary row.
C3_ReingestReplaces ==
    (etl_result.status = "ok" /\ etl_result.reingest) =>
        LET vid == etl_result.drawing_version_id
            t == etl_result.run_no
            latest(table) == \A r \in RowsOf(table, vid) : r.created_at = t
        IN  /\ latest(store.files) /\ latest(store.dimensions) /\ latest(store.notes)
            /\ latest(store.summaries) /\ latest(store.embeddings)
            /\ { r.file_type : r \in RowsOf(store.files, vid) } = last_run.inputs.artifacts
            /\ Cardinality(RowsOf(store.files, vid)) = Cardinality(last_run.inputs.artifacts)
            /\ Cardinality(RowsOf(store.dimensions, vid)) = etl_result.num_dimensions
            /\ Cardinality(RowsOf(store.notes, vid)) = etl_result.num_notes
            /\ Cardinality(RowsOf(store.embeddings, vid)) = etl_result.num_embeddings
            /\ Cardinality(RowsOf(store.summaries, vid)) = 1
            /\ \A r \in RowsOf(store.summaries, vid) : r.id = etl_result.summary_id

\* a re-ingestion committed over a version that held rows of every table
C3_Witness ==
    /\ etl_result.status = "ok"
    /\ etl_result.reingest
    /\ \A table \in {pre.files, pre.dimensions, pre.notes, pre.summaries, pre.embeddings} :
          RowsOf(table, etl_result.drawing_version_id) # {}

C5_CountMismatchFails ==
    (pc = "idle" /\ etl_result.status = "ok") =>
        Len(last_run.inputs.response.vectors) = Len(last_run.content_pieces)

\* C6: the committed EmbeddingChunk rows of a version are none, or one row per
\* worklist item of the run that wrote them, the row of item i holding item
\* i's source_type, reference and text and the i-th returned vector.
C6_AllOrNothing ==
    /\ \A e \in store.embeddings : \E w \in written : w.version_id = e.drawing_version_id
    /\ \A w \in written :
          LET rows == RowsOf(store.embeddings, w.version_id)
              n == Len(w.content_pieces)
          IN  \/ rows = {}
              \/ /\ Cardinality(rows) = n
                 /\ Len(w.vectors) = n
                 /\ \A i \in 1..n :
                       \E e \in rows :
                          /\ e.source_type = w.content_pieces[i].source_type
                          /\ e.source_ref_id = w.content_pieces[i].ref_id
                          /\ e.content = w.content_pieces[i].text
                          /\ e.embedding = w.vectors[i]

\* one version holds its whole worklist, another run committed after a
\* count mismatch and holds no chunk
C6_Witness ==
    /\ \E w \in written :
          /\ Len(w.content_pieces) >= 3
          /\ Cardinality(RowsOf(store.embeddings, w.version_id)) = Len(w.content_pieces)
    /\ \E w \in written :
          /\ Len(w.vectors) # Len(w.content_pieces)
          /\ RowsOf(store.embeddings, w.version_id) = {}

\* C7: every vector embed_texts returned has exactly D components.
C7_VectorShape ==
    \A i \in 1..Len(run.vectors) : Len(run.vectors[i]) = EMBEDDING_DIM

(***************************************************************************)
(* Search (drawing_search.py).  The store is seen through one fixed query: *)
(* every Embedding row carries the cosine similarity of its vector to the  *)
(* query vector and the pg_trgm similarity of its content to the query     *)
(* text, both computed by the database.  A score s stands for s / Grid,    *)
(* alpha a for a / Grid; similarity_score is kept in units of 1 / Grid^2.  *)
(***************************************************************************)
MaxChunks == 3
Grid == 2
MaxTopK == 2

\* (cosine similarity, trigram similarity) of a row: cosine in [-1, 1],
\* trigram in [0, 1]
Scores == { <<0 - Grid, 0>>, <<0, Grid>>, <<Grid, 0>> }

Chunk(version_id, source_type, vector_score, keyword_score) ==
    [drawing_version_id |-> version_id, source_type |-> source_type,
     vector_score |-> vector_score, keyword_score |-> keyword_score]

ChunkPool ==
    { Chunk(dv, st, sc[1], sc[2]) : dv \in {1, 2}, st \in {"summary", "note"}, sc \in Scores }

\* VectorSearchRequest / HybridSearchRequest: top_k >= 1, score_threshold
\* absent or in [-1, 1], alpha in [0, 1]; version_filter 0 and source_types {}
\* stand for an absent filter
Request(kind, top_k, has_threshold, score_threshold, alpha, version_filter, source_types) ==
    [kind |-> kind, top_k |-> top_k, has_threshold |-> has_threshold,
     score_threshold |-> score_threshold, alpha |-> alpha,
     version_filter |-> version_filter, source_types |-> source_types,
     status |-> "ok"]

Thresholds == { <<FALSE, 0>> } \cup { <<TRUE, t>> : t \in (0 - Grid)..Grid }

VectorRequests ==
    { Request("vector", top_k, th[1], th[2], 0, vf, sts) :
        top_k \in 1..MaxTopK, th \in Thresholds, vf \in {0, 1}, sts \in {{}, {"note"}} }

HybridRequests ==
    { Request("hybrid", top_k, th[1], th[2], alpha, vf, sts) :
        top_k \in 1..MaxTopK, th \in Thresholds, alpha \in 0..Grid,
        vf \in {0, 1}, sts \in {{}, {"note"}} }

\* the WHERE clause both searches build from req.filters
Filtered(rows, req) ==
    { c \in rows :
        /\ req.version_filter # 0 => c.drawing_version_id = req.version_filter
        /\ req.source_types # {} => c.source_type \in req.source_types }

Limit(s, n) == IF Len(s) <= n THEN s ELSE SubSeq(s, 1, n)

\* LIMIT top_k without the ORDER BY
VectorRows_unordered(rows, req) ==
    { Limit(o, req.top_k) : o \in Orderings(Filtered(rows, req)) }

\* ORDER BY cosine_distance ASC LIMIT top_k: any enumeration of the filtered
\* rows with non-increasing similarity, cut at top_k
VectorRows(rows, req) ==
    { Limit(o, req.top_k) : o \in
        { o \in Orderings(Filtered(rows, req)) :
            \A i \in 1..Len(o) : \A j \in i..Len(o) :
                o[i].vector_score >= o[j].vector_score } }

\* LIMIT top_k in place of LIMIT top_k * 3
HybridRows_limit_top_k(rows, req) ==
    { Limit(o, req.top_k) : o \in Orderings(Filtered(rows, req)) }

\* LIMIT top_k * 3 without ORDER BY: any top_k * 3 filtered rows in any order
HybridRows(rows, req) ==
    { Limit(o, req.top_k * 3) : o \in Orderings(Filtered(rows, req)) }

\* the fusion with the two weights exchanged
Fused_swapped(alpha, v, k) == (Grid - alpha) * v + alpha * k

\* req.alpha * v + (1.0 - req.alpha) * k
Fused(alpha, v, k) == alpha * v + (Grid - alpha) * k

\* the threshold test left out of the hybrid loop
Skipped_vector_only(req, score) ==
    req.kind = "vector" /\ req.has_threshold /\ score < Grid * req.score_threshold

\* the test that skips a row: score_threshold is not None and score < it
Skipped(req, score) == req.has_threshold /\ score < Grid * req.score_threshold

Result(chunk, score) == [chunk |-> chunk, similarity_score |-> score]

RECURSIVE Scored(_, _)
\* the loop over rows: score each row, drop those under the threshold
Scored(rows, req) ==
    IF rows = <<>> THEN <<>>
    ELSE LET c == rows[1]
             score == IF req.kind = "vector" THEN Grid * c.vector_score
                      ELSE Fused(req.alpha, c.vector_score, c.keyword_score)
         IN  (IF Skipped(req, score) THEN <<>> ELSE << Result(c, score) >>)
             \o Scored(Tail(rows), req)

RECURSIVE SortDescending(_)
\* list.sort(key=fused, reverse=True): stable, equal scores keep their order
SortDescending(rs) ==
    IF rs = <<>> THEN <<>>
    ELSE LET n == Len(rs)
             x == rs[n]
             front == SortDescending(SubSeq(rs, 1, n - 1))
             keep == { i \in 1..(n - 1) : front[i].similarity_score >= x.similarity_score }
             at == Cardinality(keep)
         IN  SubSeq(front, 1, at) \o <<x>> \o SubSeq(front, at + 1, n - 1)

\* a row is written to the embeddings table between two requests
AddChunk(c) ==
    /\ search_req.kind = "none"
    /\ Cardinality(chunks) < MaxChunks
    /\ c \notin chunks
    /\ chunks' = chunks \cup {c}
    /\ UNCHANGED <<search_req, search_rows, search_results, etl_vars, conc_vars, mode_vars, chat_vars, unit_vars>>

\* the endpoint has returned the response (or the error) of the request
SearchReturn ==
    /\ search_req.kind # "none"
    /\ search_req' = NoRequest
    /\ search_rows' = <<>>
    /\ search_results' = <<>>
    /\ UNCHANGED <<chunks, etl_vars, conc_vars, mode_vars, chat_vars, unit_vars>>

\* [query_vec] = await embed_texts([query_text]) raised or did not return
\* exactly one vector: no response
SearchFailed(req) ==
    /\ search_req' = [req EXCEPT !.status = "error"]
    /\ search_rows' = <<>>
    /\ search_results' = <<>>
    /\ UNCHANGED <<chunks, etl_vars, conc_vars, mode_vars, chat_vars, unit_vars>>

vector_search_embeddings(req, embed_ok) ==
    /\ search_req.kind = "none"
    /\ chunks # {}
    /\ IF ~embed_ok THEN SearchFailed(req)
       ELSE \E rows \in VectorRows(chunks, req) :
               /\ search_req' = req
               /\ search_rows' = rows
               /\ search_results' = Scored(rows, req)
               /\ UNCHANGED <<chunks, etl_vars, conc_vars, mode_vars, chat_vars, unit_vars>>

hybrid_search_embeddings(req, embed_ok) ==
    /\ search_req.kind = "none"
    /\ chunks # {}
    /\ IF ~embed_ok THEN SearchFailed(req)
       ELSE \E rows \in HybridRows(chunks, req) :
               /\ search_req' = req
               /\ search_rows' = rows
               /\ search_results' = Limit(SortDescending(Scored(rows, req)), req.top_k)
               /\ UNCHANGED <<chunks, etl_vars, conc_vars, mode_vars, chat_vars, unit_vars>>

NextSearch ==
    \/ \E c \in ChunkPool : AddChunk(c)
    \/ \E req \in VectorRequests, embed_ok \in BOOLEAN : vector_search_embeddings(req, embed_ok)
    \/ \E req \in HybridRequests, embed_ok \in BOOLEAN : hybrid_search_embeddings(req, embed_ok)
    \/ SearchReturn

SpecSearch == Init /\ [][NextSearch]_vars

(***************************************************************************)
(* Properties of search.                                                   *)
(***************************************************************************)
\* C8: with a threshold t supplied, every result of a vector search and of a
\* hybrid search has a score that is not below t.
C8_ThresholdFilter ==
    (search_req.status = "ok" /\ search_req.has_threshold) =>
        \A i \in 1..Len(search_results) :
            /\ search_results[i].similarity_score >= Grid * search_req.score_threshold
            /\ search_results[i].similarity_score =
                  IF search_req.kind = "vector"
                  THEN Grid * search_results[i].chunk.vector_score
                  ELSE search_req.alpha * search_results[i].chunk.vector_score
                       + (Grid - search_req.alpha) * search_results[i].chunk.keyword_score

\* a hybrid search with a threshold dropped a candidate and returned another
C8_Witness ==
    /\ search_req.status = "ok"
    /\ search_req.kind = "hybrid"
    /\ search_req.has_threshold
    /\ 0 < search_req.alpha /\ search_req.alpha < Grid
    /\ search_results # <<>>
    /\ Len(search_results) < Len(search_rows)
    /\ Len(search_results) < search_req.top_k

\* the results are the first top_k of the candidates in an order that is
\* non-increasing in score(c)
RankedBy(score(_)) ==
    /\ Len(search_results) =
          IF Len(search_rows) < search_req.top_k THEN Len(search_rows) ELSE search_req.top_k
    /\ \A i \in 1..Len(search_results) :
          /\ \E j \in 1..Len(search_rows) : search_rows[j] = search_results[i].chunk
          /\ \A j \in 1..Len(search_results) :
                i < j => /\ score(search_results[i].chunk) >= score(search_results[j].chunk)
                         /\ search_results[i].chunk # search_results[j].chunk
          /\ \A j \in 1..Len(search_rows) :
                (\A h \in 1..Len(search_results) : search_results[h].chunk # search_rows[j])
                    => score(search_results[i].chunk) >= score(search_rows[j])

VectorScoreOf(c) == c.vector_score
KeywordScoreOf(c) == c.keyword_score

\* C9: without a threshold, a hybrid search with alpha = 1.0 returns its
\* candidates in the order of their vector similarity, descending, and with
\* alpha = 0.0 in the order of their keyword similarity, descending.
C9_PureRankings ==
    (search_req.status = "ok" /\ search_req.kind = "hybrid" /\ ~search_req.has_threshold) =>
        /\ search_req.alpha = Grid => RankedBy(VectorScoreOf)
        /\ search_req.alpha = 0 => RankedBy(KeywordScoreOf)

\* alpha = 1.0 over candidates that the database returned in another order
\* than that of their vector similarity, of which top_k cuts one off
C9_Witness ==
    /\ search_req.status = "ok" /\ search_req.kind = "hybrid"
    /\ ~search_req.has_threshold
    /\ search_req.alpha = Grid
    /\ Len(search_rows) > search_req.top_k
    /\ Len(search_results) = 2
    /\ search_results[1].chunk.vector_score > search_results[2].chunk.vector_score
    /\ search_results[1].chunk.keyword_score < search_results[2].chunk.keyword_score
    /\ search_rows[1].vector_score < search_results[1].chunk.vector_score

(***************************************************************************)
(* Chat (chat_drawing.py, routers/chat.py).  An absent drawing_version_id  *)
(* is 0, an absent or empty document_id is "".                             *)
(***************************************************************************)
MaxChatRuns == 1
MaxLimit == 1

ChatDrawingRequest(drawing_version_id, document_id, s, n, d) ==
    [drawing_version_id |-> drawing_version_id, document_id |-> document_id,
     max_summary_chunks |-> s, max_note_chunks |-> n, max_dimension_chunks |-> d]

ChatRequests ==
    { ChatDrawingRequest(v, h, s, n, d) :
        v \in 0..2, h \in {"", "h1", "h2"}, s \in 0..MaxLimit, n \in 0..MaxLimit,
        d \in 0..MaxLimit }

Resolved(raised, drawing_version_id, document_id) ==
    [raised |-> raised, drawing_version_id |-> drawing_version_id,
     document_id |-> document_id]

\* _resolve_drawing_version_id with the document hash looked at first
_resolve_drawing_version_id_hash_first(s, req) ==
    IF req.document_id # ""
    THEN LET joined == { v \in s.versions :
                           \E d \in s.drawings :
                               v.drawing_id = d.id /\ d.document_id_sha = req.document_id }
             first == { v \in joined : \A w \in joined : w.ingested_at <= v.ingested_at }
         IN  IF joined = {} THEN { Resolved("ValueError", 0, "") }
             ELSE { Resolved("", dv.id, req.document_id) : dv \in first }
    ELSE IF req.drawing_version_id # 0
    THEN LET found == { v \in s.versions : v.id = req.drawing_version_id }
         IN  IF found = {} THEN { Resolved("ValueError", 0, "") }
             ELSE { Resolved("", dv.id,
                        LET ds == { d \in s.drawings : d.id = dv.drawing_id }
                        IN  IF ds = {} THEN ""
                            ELSE (CHOOSE d \in ds : TRUE).document_id_sha) : dv \in found }
    ELSE { Resolved("TypeError", 0, "") }

\* what _resolve_drawing_version_id may return or raise; with neither key in
\* the request the function returns None and the caller's unpacking raises
\* TypeError
_resolve_drawing_version_id(s, req) ==
    IF req.drawing_version_id # 0
    THEN LET found == { v \in s.versions : v.id = req.drawing_version_id }
         IN  IF found = {} THEN { Resolved("ValueError", 0, "") }
             ELSE { Resolved("", dv.id,
                        LET ds == { d \in s.drawings : d.id = dv.drawing_id }
                        IN  IF ds = {} THEN ""
                            ELSE (CHOOSE d \in ds : TRUE).document_id_sha) : dv \in found }
    ELSE IF req.document_id # ""
    THEN LET joined == { v \in s.versions :
                           \E d \in s.drawings :
                               v.drawing_id = d.id /\ d.document_id_sha = req.document_id }
             first == { v \in joined : \A w \in joined : w.ingested_at <= v.ingested_at }
         IN  IF joined = {} THEN { Resolved("ValueError", 0, "") }
             ELSE { Resolved("", dv.id, req.document_id) : dv \in first }
    ELSE { Resolved("TypeError", 0, "") }

\* The query vector of a request is seen through the cosine similarity it
\* has to the stored rows: the rows whose ids are in `near` have similarity
\* 1 to it, every other row 0.  FlatQuery is at the same distance from all.
FlatQuery == {}

Similarity(near, e) == IF e.id \in near THEN Grid ELSE 0

\* an (Embedding, similarity) pair
Pair(e, similarity) == [emb |-> e, similarity |-> similarity]

\* _top_embeddings_for_type without the ORDER BY
_top_embeddings_for_type_unordered(s, drawing_version_id, near, source_type, limit) ==
    IF limit <= 0 THEN { <<>> }
    ELSE LET rows == { e \in s.embeddings : /\ e.drawing_version_id = drawing_version_id
                                            /\ e.source_type = source_type }
         IN  { [i \in 1..Len(Limit(o, limit)) |-> Pair(o[i], Similarity(near, o[i]))] :
                 o \in Orderings(rows) }

\* the pairs _top_embeddings_for_type may return: none for a limit <= 0, else
\* the first `limit` rows of the version and source type, nearest first
_top_embeddings_for_type(s, drawing_version_id, near, source_type, limit) ==
    IF limit <= 0 THEN { <<>> }
    ELSE LET rows == { e \in s.embeddings : /\ e.drawing_version_id = drawing_version_id
                                            /\ e.source_type = source_type }
             nearest_first ==
                 { o \in Orderings(rows) :
                     \A i \in 1..Len(o) : \A j \in i..Len(o) :
                         Similarity(near, o[i]) >= Similarity(near, o[j]) }
         IN  { [i \in 1..Len(Limit(o, limit)) |-> Pair(o[i], Similarity(near, o[i]))] :
                 o \in nearest_first }

\* _build_retrieved_items: one RetrievedContextItem per pair
_build_retrieved_items(pairs) ==
    [i \in 1..Len(pairs) |->
        [chunk_id |-> pairs[i].emb.id, source_type |-> pairs[i].emb.source_type,
         drawing_version_id |-> pairs[i].emb.drawing_version_id,
         source_ref_id |-> pairs[i].emb.source_ref_id,
         matched_text |-> pairs[i].emb.content,
         similarity_score |-> pairs[i].similarity]]

FallbackReply == "no summaries, notes, or dimensions"

ChatDrawingResponse(assistant_reply, drawing_version_id, document_id, contexts) ==
    [status |-> "ok", assistant_reply |-> assistant_reply,
     drawing_version_id |-> drawing_version_id, document_id |-> document_id,
     contexts |-> contexts]

\* an exception leaves chat_with_drawing: ValueError becomes a 404 in the
\* router, HTTPException keeps its status, anything else is a 500
ChatError(status) == [NoChatResponse EXCEPT !.status = status]

\* the no-context test looking at the summaries only
NoContext_summary_only(summary_items, note_items, dim_items) ==
    summary_items = <<>>

\* not (summary_items or note_items or dim_items)
NoContext(summary_items, note_items, dim_items) ==
    summary_items = <<>> /\ note_items = <<>> /\ dim_items = <<>>

\* the source types for which _top_embeddings_for_type sent a query
Queried(req) ==
    { st \in {"summary", "note", "dimension"} :
        CASE st = "summary" -> req.max_summary_chunks > 0
          [] st = "note" -> req.max_note_chunks > 0
          [] OTHER -> req.max_dimension_chunks > 0 }

\* chat_with_drawing up to its call of the answering model: steps 1 to 3.5;
\* near is the query vector embed_texts returned for the question
ChatRetrieve(req, embed_ok, near) ==
    /\ chat.pc = "idle"
    /\ chat_req' = req
    /\ \E res \in _resolve_drawing_version_id(store, req) :
        IF res.raised # ""
        THEN /\ chat' = [ChatIdle EXCEPT !.pc = "done"]
             /\ chat_response' = ChatError(IF res.raised = "ValueError" THEN "404" ELSE "500")
        ELSE IF ~embed_ok
        THEN /\ chat' = [ChatIdle EXCEPT !.pc = "done",
                                         !.drawing_version_id = res.drawing_version_id,
                                         !.document_id = res.document_id,
                                         !.embed_calls = 1,
                                         !.embed_provider =
                                             get_effective_providers(mode).embedding,
                                         !.embed_mode = mode]
             /\ chat_response' = ChatError("500")
        ELSE \E summary_pairs \in _top_embeddings_for_type(store, res.drawing_version_id,
                                     near, "summary", req.max_summary_chunks),
                note_pairs \in _top_embeddings_for_type(store, res.drawing_version_id,
                                     near, "note", req.max_note_chunks),
                dim_pairs \in _top_embeddings_for_type(store, res.drawing_version_id,
                                     near, "dimension", req.max_dimension_chunks) :
                LET summary_items == _build_retrieved_items(summary_pairs)
                    note_items == _build_retrieved_items(note_pairs)
                    dim_items == _build_retrieved_items(dim_pairs)
                    c == [ChatIdle EXCEPT !.drawing_version_id = res.drawing_version_id,
                                          !.document_id = res.document_id,
                                          !.embed_calls = 1,
                                          !.embed_provider =
                                              get_effective_providers(mode).embedding,
                                          !.embed_mode = mode,
                                          !.queried = Queried(req),
                                          !.summary_items = summary_items,
                                          !.note_items = note_items,
                                          !.dim_items = dim_items]
                IN  IF NoContext(summary_items, note_items, dim_items)
                    THEN /\ chat' = [c EXCEPT !.pc = "done"]
                         /\ chat_response' =
                               ChatDrawingResponse(FallbackReply, res.drawing_version_id,
                                                   res.document_id, <<>>)
                    ELSE /\ chat' = [c EXCEPT !.pc = "answer"]
                         /\ chat_response' = NoChatResponse
    /\ UNCHANGED <<etl_vars, conc_vars, mode_vars, search_vars, unit_vars>>

\* what the chat backend of the mode may do: raise, answer with a text, or
\* answer with no content
ChatOutcomes == {"raise", "text", "empty"}

\* _call_chat_model: the reply, or "502" for the HTTPException it raises
_call_chat_model(m, outcome) ==
    LET provider == get_effective_providers(m).chat
    IN  IF outcome = "raise" THEN [raised |-> "502", reply |-> ""]
        ELSE IF outcome = "text" THEN [raised |-> "", reply |-> "answer"]
        ELSE IF provider = "openai" THEN [raised |-> "", reply |-> ""]
        ELSE [raised |-> "502", reply |-> ""]

\* steps 4 to 6 of chat_with_drawing: the one call of the answering model and
\* the response
ChatAnswer(outcome) ==
    /\ chat.pc = "answer"
    /\ LET a == _call_chat_model(mode, outcome)
       IN  /\ chat' = [chat EXCEPT !.pc = "done", !.answer_calls = @ + 1,
                                    !.answer_provider = get_effective_providers(mode).chat,
                                    !.answer_mode = mode]
           /\ chat_response' =
                 IF a.raised # "" THEN ChatError(a.raised)
                 ELSE ChatDrawingResponse(a.reply, chat.drawing_version_id,
                          chat.document_id,
                          chat.summary_items \o chat.note_items \o chat.dim_items)
    /\ UNCHANGED <<chat_req, etl_vars, conc_vars, mode_vars, search_vars, unit_vars>>

\* the endpoint has returned
ChatReturn ==
    /\ chat.pc = "done"
    /\ chat_req' = NoChatRequest
    /\ chat' = ChatIdle
    /\ chat_response' = NoChatResponse
    /\ UNCHANGED <<etl_vars, conc_vars, mode_vars, search_vars, unit_vars>>

\* Ingestions and chat requests, one at a time: a chat request reads committed
\* rows only, and no run commits while it is served.
NextChat ==
    \/ chat.pc = "idle" /\ Next /\ now' <= MaxChatRuns
    \/ pc = "idle" /\ \E req \in ChatRequests, embed_ok \in BOOLEAN :
                           ChatRetrieve(req, embed_ok, FlatQuery)
    \/ \E outcome \in ChatOutcomes : ChatAnswer(outcome)
    \/ ChatReturn

SpecChat == Init /\ [][NextChat]_vars

(***************************************************************************)
(* Properties of chat.                                                     *)
(***************************************************************************)
ChatHits == Len(chat.summary_items) + Len(chat.note_items) + Len(chat.dim_items)

\* the version the request names: its drawing_version_id, else the version
\* of the document with its document_id
NamedVersions ==
    IF chat_req.drawing_version_id # 0 THEN { chat_req.drawing_version_id }
    ELSE { v.id : v \in { v \in store.versions :
              \E d \in store.drawings :
                  d.id = v.drawing_id /\ d.document_id_sha = chat_req.document_id } }

ChatRetrieved == chat.pc \in {"answer", "done"} /\ chat.drawing_version_id # 0
                    /\ (chat.pc = "done" => chat_response.status \in {"ok", "502"})

\* C10: a chat request whose three retrievals return no hit ends with the
\* fallback reply, no contexts and the resolved version id, and without a call
\* of the answering model; a request with a hit calls the answering model
\* exactly once.  A version without chunks, and limits that are all 0, give
\* no hit.
C10_Fallback ==
    /\ chat.pc = "idle" => chat.answer_calls = 0
    /\ chat.pc = "answer" => ChatRetrieved /\ ChatHits > 0 /\ chat.answer_calls = 0
    /\ ChatRetrieved =>
          /\ ( \/ chat_req.max_summary_chunks + chat_req.max_note_chunks
                     + chat_req.max_dimension_chunks = 0
               \/ RowsOf(store.embeddings, chat.drawing_version_id) = {} )
                => ChatHits = 0
          /\ ChatHits = 0 =>
                /\ chat.pc = "done"
                /\ chat.answer_calls = 0
                /\ chat_response.status = "ok"
                /\ chat_response.assistant_reply = FallbackReply
                /\ chat_response.contexts = <<>>
                /\ chat_response.drawing_version_id \in NamedVersions
          /\ (ChatHits > 0 /\ chat.pc = "done") => chat.answer_calls = 1

\* a version that a run committed without chunks got the fallback reply
C10_Witness ==
    /\ chat.pc = "done"
    /\ chat_response.status = "ok"
    /\ chat_response.assistant_reply = FallbackReply
    /\ chat_req.max_summary_chunks > 0
    /\ chat.answer_calls = 0
    /\ chat.drawing_version_id \in { v.id : v \in store.versions }

\* the request names nothing that resolves: an id of no version, a hash of
\* no document or of a document without versions, or neither key
Unresolvable ==
    IF chat_req.drawing_version_id # 0
    THEN \A v \in store.versions : v.id # chat_req.drawing_version_id
    ELSE NamedVersions = {}

\* C11: a chat request that names no existing version, no document with a
\* version, or nothing at all ends with NotFound (404), and no embedding or
\* answering backend was called for it.
C11_NotFound ==
    (chat.pc = "done" /\ Unresolvable) =>
        /\ chat_response.status = "404"
        /\ chat.embed_calls = 0
        /\ chat.answer_calls = 0

\* the active versions of the document with hash h
ActiveVersionsOfHash(h) ==
    { v.id : v \in { v \in store.versions :
          /\ v.is_active
          /\ \E d \in store.drawings : d.id = v.drawing_id /\ d.document_id_sha = h } }

ChatItems == chat.summary_items \o chat.note_items \o chat.dim_items

C13_UpstreamError ==
    (chat.pc = "done" /\ chat.answer_calls > 0 /\ chat_response.status = "ok") =>
        chat_response.assistant_reply # ""

\* the length of the worklist as the claim describes it, counted on the
\* committed rows of a version: the long-form summary, the short summary if
\* present, the Dimensions with a text or a value, the Notes with a
\* non-empty text
ClaimedWorklistLength(version_id) ==
    1
    + (IF \E x \in RowsOf(store.summaries, version_id) : x.short_description.t # "null"
       THEN 1 ELSE 0)
    + Cardinality({ d \in RowsOf(store.dimensions, version_id) :
                      d.dim_text.t # "null" \/ d.dim_value.t # "null" })
    + Cardinality({ x \in RowsOf(store.notes, version_id) :
                      x.text.t = "str" /\ x.text.s # <<>> })

\* C14: the embedding_count of a successful run is the length of its
\* worklist: one item for the long-form summary, one for the short summary
\* if present, one for every Dimension with a text or value, one for every
\* Note with a non-empty text.
C14_WorklistCount ==
    (pc = "idle" /\ etl_result.status = "ok") =>
        etl_result.num_embeddings = ClaimedWorklistLength(etl_result.drawing_version_id)

\* the chunks that pass the filters of the request
Matching ==
    { c \in chunks :
        /\ search_req.version_filter = 0
              \/ c.drawing_version_id = search_req.version_filter
        /\ search_req.source_types = {} \/ c.source_type \in search_req.source_types }

\* the results are at most top_k, distinct, in descending order of their
\* score, each scored by score(c), and they are the highest-scoring matching
\* chunks whose score is not below the threshold
TopOfMatching(score(_)) ==
    LET qualifying == { c \in Matching :
                          search_req.has_threshold =>
                              score(c) >= Grid * search_req.score_threshold }
        n == Len(search_results)
        returned == { search_results[i].chunk : i \in 1..n }
    IN  /\ n <= search_req.top_k
        /\ n = IF Cardinality(qualifying) < search_req.top_k
               THEN Cardinality(qualifying) ELSE search_req.top_k
        /\ Cardinality(returned) = n
        /\ returned \subseteq qualifying
        /\ \A i \in 1..n :
              /\ search_results[i].similarity_score = score(search_results[i].chunk)
              /\ \A j \in (i + 1)..n :
                    search_results[i].similarity_score >= search_results[j].similarity_score
              /\ \A c \in qualifying \ returned :
                    search_results[i].similarity_score >= score(c)

SimilarityOf(c) == Grid * c.vector_score
FusedScoreOf(c) ==
    search_req.alpha * c.vector_score + (Grid - search_req.alpha) * c.keyword_score

\* C15: a vector search returns at most top_k results in descending order
\* of similarity, all passing the filters, and they are the top_k most
\* similar of the filtered chunks whose similarity is not below the
\* threshold.
C15_VectorTopK ==
    (search_req.status = "ok" /\ search_req.kind = "vector") => TopOfMatching(SimilarityOf)

\* a filtered vector search with a threshold left out a chunk of another
\* version, a chunk under the threshold, and a qualifying chunk beyond top_k
C15_Witness ==
    /\ search_req.status = "ok" /\ search_req.kind = "vector"
    /\ search_req.has_threshold
    /\ search_req.version_filter # 0
    /\ Len(search_results) = search_req.top_k
    /\ chunks \ Matching # {}
    /\ \E c \in Matching :
          /\ SimilarityOf(c) >= Grid * search_req.score_threshold
          /\ \A i \in 1..Len(search_results) : search_results[i].chunk # c

\* C16: a hybrid search returns at most top_k results in descending order
\* of fused score alpha * vector + (1 - alpha) * keyword, and when at most
\* 3 * top_k chunks pass the filters they are the top_k of highest fused
\* score among the filtered chunks whose fused score is not below the
\* threshold.
C16_HybridTopK ==
    (search_req.status = "ok" /\ search_req.kind = "hybrid") =>
        /\ Len(search_results) <= search_req.top_k
        /\ \A i \in 1..Len(search_results) :
              /\ search_results[i].similarity_score = FusedScoreOf(search_results[i].chunk)
              /\ \A j \in (i + 1)..Len(search_results) :
                    search_results[i].similarity_score >= search_results[j].similarity_score
        /\ Cardinality(Matching) <= 3 * search_req.top_k => TopOfMatching(FusedScoreOf)

\* a hybrid search with 0 < alpha < 1 and a threshold returned top_k results
\* and left out a qualifying chunk of lower fused score
C16_Witness ==
    /\ search_req.status = "ok" /\ search_req.kind = "hybrid"
    /\ search_req.has_threshold
    /\ 0 < search_req.alpha /\ search_req.alpha < Grid
    /\ Cardinality(Matching) <= 3 * search_req.top_k
    /\ Len(search_results) = search_req.top_k
    /\ \E c \in Matching :
          /\ FusedScoreOf(c) >= Grid * search_req.score_threshold
          /\ FusedScoreOf(c) < search_results[Len(search_results)].similarity_score
          /\ \A i \in 1..Len(search_results) : search_results[i].chunk # c

(***************************************************************************)
(* The embedding entry point on its own (embeddings.embed_texts): any list *)
(* of texts, any answer of the backend.                                    *)
(***************************************************************************)
MaxTexts == 2

EmbedTexts == { <<>>, <<"a">>, <<"b">> }

EmbedInputs == UNION { [1..n -> EmbedTexts] : n \in 0..MaxTexts }

\* one call of embed_texts: nothing is sent for an empty list
EmbedCall(texts, resp) ==
    /\ embed_call' =
          IF texts = <<>>
          THEN [done |-> TRUE, texts |-> texts, sent |-> <<>>, raised |-> FALSE,
                vectors |-> embed_texts(mode, texts, resp)]
          ELSE [done |-> TRUE, texts |-> texts, sent |-> BackendInput(texts),
                raised |-> resp.raised,
                vectors |-> IF resp.raised THEN <<>> ELSE embed_texts(mode, texts, resp)]
    /\ UNCHANGED <<extraction, etl_vars, conc_vars, mode_vars, search_vars, chat_vars>>

NextEmbed ==
    \E texts \in EmbedInputs :
        \E resp \in BackendResponses(get_effective_providers(mode).embedding, Len(texts)) :
            EmbedCall(texts, resp)

SpecEmbed == Init /\ [][NextEmbed]_vars

\* C17: when embed_texts returns, it returns one vector per input text, and
\* every empty input text went to the backend as a single space.
C17_LengthPreserving ==
    (embed_call.done /\ ~embed_call.raised) =>
        /\ Len(embed_call.vectors) = Len(embed_call.texts)
        /\ Len(embed_call.sent) = Len(embed_call.texts)
        /\ \A i \in 1..Len(embed_call.texts) :
              embed_call.sent[i] = IF embed_call.texts[i] = <<>> THEN <<" ">>
                                   ELSE embed_call.texts[i]

(***************************************************************************)
(* Entity extraction on its own (etl_dwg._extract_dimensions_and_notes and *)
(* the flush of its rows): any short list of entity records.  A list       *)
(* element that is no key/value record (a string, a number, a list) has no *)
(* .get; it is written as an Entity whose type holds JScalar.              *)
(***************************************************************************)
MaxEntities == 2

JScalar == [t |-> "scalar", s |-> <<>>, n |-> 0]

Str(s) == JStr(s)

\* entity records with the outcome the classification rule gives them:
\* kind "dim", "note" or "none", the note sub-type, and whether the record
\* has a type that is a string
Labelled(ent, kind, note_type) == [ent |-> ent, kind |-> kind, note_type |-> note_type]

EntityPool ==
    { Labelled(DimR5, "dim", ""),
      Labelled(DimBare, "dim", ""),
      Labelled(Entity(Str(<<"D","i","m","T","e","x","t">>), JNum(5), Str(<<"x">>),
                      JAbsent, JAbsent), "dim", ""),
      Labelled(TextNote, "note", "tolerance"),
      Labelled(TextBlank, "note", "general"),
      Labelled(Line, "none", ""),
      Labelled(Entity(Str(<<"t","e","x","t">>), JNum(6), Str(<<Tok_pm, "1">>),
                      JAbsent, JAbsent), "note", "tolerance"),
      Labelled(Entity(Str(<<"T","E","X","T">>), JNum(7),
                      Str(<<Tok_dia, "5", " ", "T", "O", "L">>), JAbsent, JAbsent),
               "note", "tolerance"),
      Labelled(Entity(Str(<<"M","T","e","x","t">>), JNum(8),
                      Str(<<"F","L","A","T","N","E","S","S">>), JAbsent, JAbsent),
               "note", "gdandt"),
      Labelled(Entity(Str(<<"A","T","T","E","X","T">>), JAbsent, Str(<<"H","i">>),
                      JAbsent, JAbsent), "note", "general"),
      Labelled(Entity(Str(<<"T","E","X","T">>), JNum(9), JAbsent, JAbsent, JAbsent),
               "note", "general"),
      Labelled(Entity(Str(<<"T","E","X","T">>), JNum(10), JNull, JAbsent, JAbsent),
               "note", "general"),
      Labelled(Entity(Str(<<"T","E","X","T">>), JNum(14), JNum(5), JAbsent, JAbsent),
               "note", "general"),
      Labelled(Entity(JAbsent, JNum(11), Str(<<"x">>), JAbsent, JAbsent), "none", ""),
      Labelled(Entity(JNull, JNum(12), JAbsent, JAbsent, JAbsent), "none", ""),
      Labelled(Entity(JNum(3), JNum(13), JAbsent, JAbsent, JAbsent), "none", ""),
      Labelled(Entity(JScalar, JAbsent, JAbsent, JAbsent, JAbsent), "none", "") }

LabelledLists == UNION { [1..n -> EntityPool] : n \in 0..MaxEntities }

\* one call of _extract_dimensions_and_notes for version 1, and the INSERT of
\* its rows by the next db.flush()
Extract(has_entities, labelled) ==
    LET data == JsonData(has_entities, [i \in 1..Len(labelled) |-> labelled[i].ent])
        ex == _extract_dimensions_and_notes(1, data, 0)
    IN  /\ ~extraction.done
        /\ extraction' =
              [done |-> TRUE, data |-> data, raised |-> ex.raised,
               dims |-> IF ex.raised THEN <<>> ELSE ex.dims,
               notes |-> IF ex.raised THEN <<>> ELSE ex.notes,
               flush_raised |-> ~ex.raised /\ NotNullViolated([pending_notes |-> ex.notes])]
        /\ UNCHANGED <<embed_call, etl_vars, conc_vars, mode_vars, search_vars, chat_vars>>

NextExtract ==
    \E has_entities \in BOOLEAN, labelled \in LabelledLists : Extract(has_entities, labelled)

SpecExtract == Init /\ [][NextExtract]_vars

\* the label of an entity record of the pool
LabelOf(ent) == CHOOSE l \in EntityPool : l.ent = ent

RECURSIVE OfKind(_, _)
\* the records of a list with a given kind, in order
OfKind(entities, kind) ==
    IF entities = <<>> THEN <<>>
    ELSE (IF LabelOf(Head(entities)).kind = kind THEN <<Head(entities)>> ELSE <<>>)
         \o OfKind(Tail(entities), kind)

ExtractedFrom == IF extraction.data.has_entities THEN extraction.data.entities ELSE <<>>

\* C19: extraction never raises and its rows never abort the run at the
\* flush, whatever the entity records are; a record without a string type
\* gives no row.
C19_NeverRaises ==
    extraction.done =>
        /\ ~extraction.raised
        /\ ~extraction.flush_raised
        /\ Len(extraction.dims) = Len(OfKind(ExtractedFrom, "dim"))
        /\ Len(extraction.notes) = Len(OfKind(ExtractedFrom, "note"))

StageAfter ==
    [idle |-> "files", files |-> "parse", parse |-> "summary", summary |-> "embed",
     embed |-> "commit", commit |-> "idle"]

\* the session holds every row the run has added: its files, Dimensions,
\* Notes and its Summary
RunRowsInserted ==
    /\ run.pending_files = <<>> /\ run.pending_dims = <<>> /\ run.pending_notes = <<>>
    /\ Cardinality(RowsOf(sess.files, run.version_id)) = Cardinality(run.artifacts)
    /\ Cardinality(RowsOf(sess.dimensions, run.version_id)) = run.dims_inserted
    /\ Cardinality(RowsOf(sess.notes, run.version_id)) = run.notes_inserted
    /\ \E x \in RowsOf(sess.summaries, run.version_id) : x.id = run.summary_id

OrderedStep ==
    /\ pc' # pc => pc' = StageAfter[pc] \/ (pc' = "idle" /\ etl_result'.status = "failed")
    /\ pc' = "files" => /\ \E v \in sess'.versions : v.id = run'.version_id
                        /\ \E d \in sess'.drawings : d.id = run'.drawing_id
    /\ pc' = "parse" => run'.artifacts # {} /\ run'.dims_inserted = 0
    /\ pc' = "summary" => run'.summary_id = 0
    /\ pc \in {"idle", "files", "parse", "summary"} =>
          run.embed_calls = 0 /\ run'.embed_calls = 0
    /\ pc = "embed" => RunRowsInserted /\ run.embed_calls = 0 /\ run'.embed_calls <= 1
    /\ pc = "commit" => RunRowsInserted /\ run.embed_calls <= 1
    /\ store' # store => pc = "commit" /\ pc' = "idle" /\ etl_result'.status = "ok"
    /\ (pc' = "idle" /\ etl_result'.status = "ok" /\ etl_result' # etl_result) =>
          pc = "commit"

\* C21: one ETL run goes through its steps in the order resolve, register
\* files, extract, summarize, embed, commit; the embedding provider is called
\* at most once, after the run's file, Dimension, Note and Summary rows are
\* in the session, and nothing is committed before the embedding step is over.
C21_StepOrder == [][OrderedStep]_vars

\* a run that embedded a worklist with Dimensions and Notes has committed
C21_Witness ==
    /\ pc = "idle"
    /\ etl_result.status = "ok" /\ etl_result.stage = "done"
    /\ Len(last_run.content_pieces) >= 3
    /\ etl_result.num_embeddings = Len(last_run.content_pieces)
    /\ RowsOf(store.dimensions, etl_result.drawing_version_id) # {}
    /\ RowsOf(store.notes, etl_result.drawing_version_id) # {}

(***************************************************************************)
(* Documents and their versions.                                           *)
(***************************************************************************)
\* what a request with the document hash h only resolves to
ResolvedByHash(h) ==
    { res \in _resolve_drawing_version_id(store, ChatDrawingRequest(0, h, 0, 0, 0)) :
        res.raised = "" }

OneVersionPerDocument ==
    /\ \A d \in store.drawings :
          /\ Cardinality(VersionsOf(store, d)) = 1
          /\ \A v \in VersionsOf(store, d) : v.dwg_sha256 = d.document_id_sha
    /\ \A h \in Hashes :
          /\ (\E d \in store.drawings : d.document_id_sha = h) => ResolvedByHash(h) # {}
          /\ \A res \in ResolvedByHash(h) :
                res.drawing_version_id \in ActiveVersionsOfHash(h)

\* the first-ingest branch has run: every version row there was is unchanged
DeactivatesNothing ==
    (pc = "idle" /\ pc' = "files" /\ ~run'.reingest) =>
        /\ store.versions \subseteq sess'.versions
        /\ Cardinality(sess'.versions) = Cardinality(store.versions) + 1

\* C27: after any sequence of ETL runs every Document has exactly one
\* DocumentVersion, whose hash is the Document's hash; the branch that
\* deactivates prior active versions changes no row; and a document hash
\* resolves to the active version of the Document.
C27_OneVersion == []OneVersionPerDocument /\ [][DeactivatesNothing]_vars

\* the first-ingest branch ran over a table that held a version, and both
\* Documents are committed and resolve
C27_Witness ==
    /\ pc = "idle"
    /\ Cardinality(store.drawings) = 2
    /\ Cardinality(store.versions) = 2
    /\ etl_result.status = "ok" /\ ~etl_result.reingest
    /\ \A h \in Hashes : ResolvedByHash(h) # {}

(***************************************************************************)
(* Chunks and the rows they refer to.                                      *)
(***************************************************************************)
\* _load_geometry_for_embeddings: the entries of the mapping from embedding
\* id to geometry index; an embedding without an entry gets None
_load_geometry_for_embeddings(s, embeddings) ==
    { [embedding_id |-> x[1].id, kind |-> "dimension", row_id |-> x[2].id,
       json_index |-> x[2].json_index, geometry |-> x[2].geometry] :
          x \in { x \in { e \in embeddings : e.source_type = "dimension" } \X s.dimensions :
                    x[2].id = x[1].source_ref_id } }
    \cup
    { [embedding_id |-> x[1].id, kind |-> "note", row_id |-> x[2].id,
       json_index |-> x[2].json_index, geometry |-> x[2].geometry] :
          x \in { x \in { e \in embeddings : e.source_type = "note" } \X s.notes :
                    x[2].id = x[1].source_ref_id } }

\* geom_index.get(e.id): the entries of the mapping for one embedding
GeometryOf(s, embeddings, e) ==
    { g \in _load_geometry_for_embeddings(s, embeddings) : g.embedding_id = e.id }

OwnedRow(table, e) ==
    \E r \in table : r.id = e.source_ref_id /\ r.drawing_version_id = e.drawing_version_id

\* C30: in every committed state a "dimension" chunk refers to a Dimension
\* row and a "note" chunk to a Note row of the chunk's own version, a
\* "summary" or "summary_short" chunk to the Summary row of its version; so
\* a dimension or note hit has a geometry index and any other hit has none.
C30_ChunkReferences ==
    \A e \in store.embeddings :
        /\ e.source_type \in {"dimension", "note", "summary", "summary_short"}
        /\ e.source_type = "dimension" => OwnedRow(store.dimensions, e)
        /\ e.source_type = "note" => OwnedRow(store.notes, e)
        /\ e.source_type \in {"summary", "summary_short"} => OwnedRow(store.summaries, e)
        /\ e.source_type \in {"dimension", "note"} =>
              /\ Cardinality(GeometryOf(store, store.embeddings, e)) = 1
              /\ \A g \in GeometryOf(store, store.embeddings, e) : g.kind = e.source_type
        /\ e.source_type \in {"summary", "summary_short"} =>
              GeometryOf(store, store.embeddings, e) = {}

\* a re-ingestion replaced chunks of all four kinds, after a failed run or
\* under another file name
C30_Witness ==
    /\ pc = "idle"
    /\ etl_result.status = "ok" /\ etl_result.reingest
    /\ RowsOf(pre.embeddings, etl_result.drawing_version_id) # {}
    /\ { e.source_type : e \in RowsOf(store.embeddings, etl_result.drawing_version_id) }
          = {"dimension", "note", "summary", "summary_short"}

(***************************************************************************)
(* Hybrid search over more chunks than it fetches: a table of up to        *)
(* MaxCandidates chunks of one version.                                    *)
(***************************************************************************)
MaxCandidates == 4

CandidatePool ==
    { Chunk(1, "note", sc[1], sc[2]) : sc \in Scores }
    \cup { Chunk(1, "summary", sc[1], sc[2]) : sc \in Scores }

\* a row is written to the embeddings table between two requests
AddCandidate(c) ==
    /\ search_req.kind = "none"
    /\ Cardinality(chunks) < MaxCandidates
    /\ c \notin chunks
    /\ chunks' = chunks \cup {c}
    /\ UNCHANGED <<search_req, search_rows, search_results, etl_vars, conc_vars, mode_vars, chat_vars, unit_vars>>

NextHybrid ==
    \/ \E c \in CandidatePool : AddCandidate(c)
    \/ \E req \in HybridRequests, embed_ok \in BOOLEAN : hybrid_search_embeddings(req, embed_ok)
    \/ SearchReturn

SpecHybrid == Init /\ [][NextHybrid]_vars

\* the scores of a result list, in order
ScoresOf(results) == [i \in 1..Len(results) |-> results[i].similarity_score]

\* C25: the candidates of a hybrid search are the 3 * top_k matching chunks
\* of highest vector similarity (all of them when fewer match), and every
\* answer the same request can get from the same table has the same scores.
C25_HybridCandidates ==
    (search_req.status = "ok" /\ search_req.kind = "hybrid") =>
        LET candidates == { search_rows[i] : i \in 1..Len(search_rows) }
            fetch == 3 * search_req.top_k
        IN  /\ Cardinality(candidates) =
                  IF Cardinality(Matching) < fetch THEN Cardinality(Matching) ELSE fetch
            /\ candidates \subseteq Matching
            /\ \A c \in Matching \ candidates :
                  \A r \in candidates : r.vector_score >= c.vector_score
            /\ \A rows \in HybridRows(chunks, search_req) :
                  ScoresOf(Limit(SortDescending(Scored(rows, search_req)), search_req.top_k))
                      = ScoresOf(search_results)

(***************************************************************************)
(* The context of a chat answer: documents ingested once each, with two    *)
(* Dimension and two Note chunks, and questions that are nearest to any    *)
(* one chunk.                                                              *)
(***************************************************************************)
MaxContextLimit == 2

DimD9 == Entity(JStr(<<"D","i","m">>), JNum(1), JStr(<<"D">>), JNum(9), JAbsent)
TextFlat == Entity(JStr(<<"T","E","X","T">>), JNum(3),
                   JStr(<<"f","l","a","t","n","e","s","s">>), JAbsent, JAbsent)

ContextInput == JsonData(TRUE, <<DimR5, DimD9, TextNote, TextFlat>>)

ContextRequests ==
    { ChatDrawingRequest(v, "", sl, nl, dl) :
        v \in 1..2, sl \in 0..MaxContextLimit, nl \in 0..MaxContextLimit,
        dl \in 0..MaxContextLimit }

\* the query vectors: far from every row, or nearest to one committed row
QueryVectors == { {} } \cup { {e.id} : e \in store.embeddings }

NextContext ==
    \/ /\ chat.pc = "idle"
       /\ \/ \E h \in Hashes :
                /\ \A d \in store.drawings : d.document_id_sha # h
                /\ ResolveVersion(h, "a.dwg")
          \/ \E ok \in ArtifactChoices : RegisterFiles(ok)
          \/ ParseAndExtract(TRUE, ContextInput)
          \/ Summarize(SummaryOut(FALSE, JStr(<<"L">>), JStr(<<"S">>)))
          \/ GenerateEmbeddings
          \/ Commit(TRUE)
    \/ /\ pc = "idle"
       /\ \E req \in ContextRequests, embed_ok \in BOOLEAN, near \in QueryVectors :
             ChatRetrieve(req, embed_ok, near)
    \/ ChatAnswer("text")
    \/ ChatReturn

SpecContext == Init /\ [][NextContext]_vars

\* the items of one class are of that class and in descending similarity
GroupOf(items, source_type) ==
    \A i \in 1..Len(items) :
        /\ items[i].source_type = source_type
        /\ \A j \in i..Len(items) : items[i].similarity_score >= items[j].similarity_score

\* C24: in every chat response the question was embedded once; the context
\* holds at most max_summary_chunks summary items, max_note_chunks note items
\* and max_dimension_chunks dimension items, a class with limit 0 was not
\* queried and has no item; every item is a chunk of the resolved version;
\* and the list is the summaries, then the notes, then the dimensions, each
\* group in descending similarity.
C24_ChatContext ==
    (chat.pc = "done" /\ chat_response.status = "ok") =>
        /\ chat.embed_calls = 1
        /\ Len(chat.summary_items) <= chat_req.max_summary_chunks
        /\ Len(chat.note_items) <= chat_req.max_note_chunks
        /\ Len(chat.dim_items) <= chat_req.max_dimension_chunks
        /\ chat_req.max_summary_chunks = 0 => "summary" \notin chat.queried
        /\ chat_req.max_note_chunks = 0 => "note" \notin chat.queried
        /\ chat_req.max_dimension_chunks = 0 => "dimension" \notin chat.queried
        /\ chat_response.contexts = chat.summary_items \o chat.note_items \o chat.dim_items
        /\ GroupOf(chat.summary_items, "summary")
        /\ GroupOf(chat.note_items, "note")
        /\ GroupOf(chat.dim_items, "dimension")
        /\ \A i \in 1..Len(chat_response.contexts) :
              /\ chat_response.contexts[i].drawing_version_id
                    = chat_response.drawing_version_id
              /\ \E e \in store.embeddings :
                    /\ e.id = chat_response.contexts[i].chunk_id
                    /\ e.drawing_version_id = chat_response.drawing_version_id
                    /\ e.source_type = chat_response.contexts[i].source_type

\* two versions hold chunks; the answer has two notes, the nearer one first
\* though it was written later, one of two dimensions, and no summary
\* because the limit of that class is 0
C24_Witness ==
    /\ chat.pc = "done" /\ chat_response.status = "ok"
    /\ Cardinality({ e.drawing_version_id : e \in store.embeddings }) = 2
    /\ chat_req.max_summary_chunks = 0
    /\ chat_req.max_dimension_chunks = 1
    /\ Len(chat_response.contexts) = 3
    /\ chat_response.contexts[1].source_type = "note"
    /\ chat_response.contexts[1].similarity_score > chat_response.contexts[2].similarity_score
    /\ chat_response.contexts[1].chunk_id > chat_response.contexts[2].chunk_id
    /\ chat_response.contexts[3].source_type = "dimension"


(***************************************************************************)
(* The security mode switched while the service runs.                      *)
(***************************************************************************)
\* the values a caller may hand to set_security_mode
ModeValues == SecurityModes \cup {"open"}

\* set_security_mode: a value outside SecurityModes raises before _mode is
\* assigned; EMBEDDING_MODEL was computed at import and stays
set_security_mode(m) ==
    /\ mode' = IF m \in SecurityModes THEN m ELSE mode
    /\ mode_call' = [mode |-> m, raised |-> m \notin SecurityModes, before |-> mode]
    /\ UNCHANGED <<EMBEDDING_MODEL, etl_vars, conc_vars, search_vars, chat_vars, unit_vars>>

\* Ingestions and chat requests as in NextChat, with the mode set at any
\* point in between: before a run, between the steps of a run, and between
\* the embedding and the answering call of a chat request.
NextMode ==
    \/ chat.pc = "idle" /\ Next /\ now' <= MaxChatRuns
    \/ pc = "idle" /\ \E req \in ChatRequests, embed_ok \in BOOLEAN :
                           ChatRetrieve(req, embed_ok, FlatQuery)
    \/ \E outcome \in ChatOutcomes : ChatAnswer(outcome)
    \/ ChatReturn
    \/ \E m \in ModeValues : set_security_mode(m)

SpecMode == Init /\ [][NextMode]_vars

\* the backend a call made under mode m is to use
BackendOf(m) == IF m = "secure" THEN "ollama" ELSE "openai"

\* the embedding and answering calls go to the backend of the mode at the
\* call, and a set_security_mode with a value outside SecurityModes raises
\* and leaves the mode as it was
EmbeddingAndChatFollowMode ==
    /\ run.embed_mode # "" => run.provider = BackendOf(run.embed_mode)
    /\ chat.embed_mode # "" => chat.embed_provider = BackendOf(chat.embed_mode)
    /\ chat.answer_mode # "" => chat.answer_provider = BackendOf(chat.answer_mode)
    /\ mode_call.mode # "" =>
           /\ mode_call.raised = (mode_call.mode \notin SecurityModes)
           /\ mode = IF mode_call.raised THEN mode_call.before ELSE mode_call.mode

\* C26: every call of a backend (the summarizer and the embedding of a run,
\* the embedding and the answering of a chat request) goes to the local
\* backend when the mode at the call is "secure" and to the remote one when
\* it is "not_secure", and a set_security_mode with another value raises and
\* leaves the mode as it was.
C26_ModeSelectsBackend ==
    /\ run.summary_mode # "" => run.summary_backend = BackendOf(run.summary_mode)
    /\ EmbeddingAndChatFollowMode

\* the embedding model of a backend
ModelOf(provider) ==
    IF provider = "openai" THEN "openai_embedding_model" ELSE "ollama_embedding_model"

\* C28: the model_name of every committed EmbeddingChunk is the embedding
\* model of the backend that produced the vectors of its version.
C28_ModelIdentity ==
    \A e \in store.embeddings :
        \A w \in written :
            w.version_id = e.drawing_version_id => e.model_name = ModelOf(w.provider)

\* C29: the backend that embedded the question of a chat request and the
\* backend that answered it belong to one mode.
C29_OneModePerRequest ==
    chat.answer_mode # "" =>
        \E m \in SecurityModes :
            /\ chat.embed_provider = get_effective_providers(m).embedding
            /\ chat.answer_provider = get_effective_providers(m).chat


(***************************************************************************)
(* ETL runs of requests served at the same time.  Each request has its own *)
(* session (get_db); its statements run in one READ COMMITTED transaction: *)
(* a statement sees what is committed plus the transaction's own writes, a *)
(* DELETE or UPDATE of a row another open transaction has written waits    *)
(* for it to end, an INSERT of a unique key another open transaction has   *)
(* written waits too, and sequences are not transactional.                 *)
(***************************************************************************)
MaxConcRuns == 3          \* runs started in all

\* the upload file name of each request
ConcFilename(p) == IF p = 1 THEN "a.dwg" ELSE "b.dwg"

\* the parsed structure of every upload
ConcInput == JsonData(TRUE, <<DimR5, TextNote>>)

\* what the summarizer gives
ConcSummaries == { SummaryOut(TRUE, JNull, JNull),
                   SummaryOut(FALSE, JStr(<<"L">>), JStr(<<"S">>)) }

DerivedTables == <<"files", "dimensions", "notes", "summaries", "embeddings">>

Minus(a, b) == [tbl \in DOMAIN a |-> a[tbl] \ b[tbl]]
Plus(a, b) == [tbl \in DOMAIN a |-> a[tbl] \cup b[tbl]]

\* what the statements of session p see
View(c, p) == Plus(Minus(c.db, c.txn[p].del), c.txn[p].ins)

InFlight(c, q) == c.txn[q].pc # "idle"

Others(c, p) == { q \in Procs \ {p} : InFlight(c, q) }

\* rows of a table another open transaction has deleted or updated
LockedByOther(c, p, tbl, rows) ==
    \E q \in Others(c, p) : rows \cap c.txn[q].del[tbl] # {}

\* rows of a table other open transactions have written
WrittenByOthers(c, p, tbl) ==
    UNION { c.txn[q].ins[tbl] \cup c.txn[q].del[tbl] : q \in Others(c, p) }

\* Drawing.document_id_sha is UNIQUE, left unchecked
DrawingHashTaken_unchecked(s, document_id) == FALSE

\* Drawing.document_id_sha is UNIQUE: the INSERT raises IntegrityError
DrawingHashTaken(s, document_id) ==
    \E d \in s.drawings : d.document_id_sha = document_id

\* DrawingVersion.dwg_sha256 is UNIQUE: the INSERT raises IntegrityError
VersionHashTaken(s, document_id) ==
    \E v \in s.versions : v.dwg_sha256 = document_id

\* the transaction as it is after the statements that turn its view into nv
Written(c, p, nv) ==
    [c.txn[p] EXCEPT !.ins = Minus(nv, c.db), !.del = Minus(c.db, nv)]

\* the except branch of the endpoint: db.rollback(); what the transaction
\* wrote is gone, the sequence values it drew are not
Rollback(c, p, cause) ==
    [c EXCEPT !.txn[p] = NoTxn,
              !.result[p] = [status |-> "failed", cause |-> cause,
                             document_id |-> c.txn[p].document_id,
                             overlap |-> c.txn[p].overlap]]

\* a request arrives; step 1: SELECT the Drawing of document_id
Begin(p, document_id) ==
    /\ conc.txn[p].pc = "idle"
    /\ conc.started < MaxConcRuns
    /\ LET found == { d \in conc.db.drawings : d.document_id_sha = document_id }
           mine == [NoTxn EXCEPT
                       !.pc = IF found = {} THEN "ins_drawing" ELSE "version",
                       !.document_id = document_id,
                       !.source_filename = ConcFilename(p),
                       !.drawing_id = IF found = {} THEN 0
                                      ELSE (CHOOSE d \in found : TRUE).id,
                       !.t = conc.started + 1,
                       !.overlap = { conc.txn[q].document_id : q \in Others(conc, p) }]
       IN  conc' = [conc EXCEPT
                       !.started = @ + 1,
                       !.result[p] = NoOutcome,
                       !.txn = [q \in Procs |->
                                   IF q = p THEN mine
                                   ELSE IF InFlight(conc, q)
                                        THEN [conc.txn[q] EXCEPT
                                                 !.overlap = @ \cup {document_id}]
                                        ELSE conc.txn[q]]]
    /\ UNCHANGED non_conc_vars

\* step 1: db.add(Drawing(...)); db.flush()
InsertDrawing(p) ==
    /\ conc.txn[p].pc = "ins_drawing"
    /\ LET x == conc.txn[p]
           row == [id |-> conc.seq.drawings, document_id_sha |-> x.document_id,
                   created_at |-> x.t]
           drawn == [conc EXCEPT !.seq.drawings = @ + 1]
       IN  /\ \A d \in WrittenByOthers(conc, p, "drawings") :
                  d.document_id_sha # x.document_id
           /\ IF DrawingHashTaken(View(conc, p), x.document_id)
              THEN conc' = Rollback(drawn, p, "conflict")
              ELSE conc' = [drawn EXCEPT
                               !.txn[p].ins.drawings = @ \cup {row},
                               !.txn[p].drawing_id = row.id,
                               !.txn[p].pc = "version"]
    /\ UNCHANGED non_conc_vars


\* the rows a DELETE without its filter on the version names
DerivedRows_all(s, tbl, version_id) == s[tbl]

\* the rows the DELETE of a derived table names: those of the version
DerivedRows(s, tbl, version_id) ==
    { r \in s[tbl] : r.drawing_version_id = version_id }

\* step 2: SELECT the DrawingVersion of document_id
SelectVersion(p) ==
    /\ conc.txn[p].pc = "version"
    /\ LET x == conc.txn[p]
           existing == { v \in View(conc, p).versions : v.dwg_sha256 = x.document_id }
       IN  conc' = IF existing # {}
                   THEN [conc EXCEPT
                            !.txn[p].reingest = TRUE,
                            !.txn[p].version_id = (CHOOSE v \in existing : TRUE).id,
                            !.txn[p].loaded = { CHOOSE v \in existing : TRUE },
                            !.txn[p].k = 1,
                            !.txn[p].pc = "delete"]
                   ELSE [conc EXCEPT !.txn[p].pc = "first"]
    /\ UNCHANGED non_conc_vars

\* the re-ingest branch: one DELETE per derived table.  A DELETE that meets
\* rows another open transaction has deleted waits for it, and then deletes
\* the rows of its own snapshot that are still there.
DeleteDerived(p) ==
    /\ conc.txn[p].pc = "delete"
    /\ LET x == conc.txn[p]
           tbl == DerivedTables[x.k]
           snapshot == IF x.waiting THEN x.targets
                       ELSE DerivedRows(View(conc, p), tbl, x.version_id)
           locked == LockedByOther(conc, p, tbl, snapshot)
           gone == snapshot \cap View(conc, p)[tbl]
       IN  IF locked
           THEN /\ ~x.waiting
                /\ conc' = [conc EXCEPT !.txn[p].waiting = TRUE,
                                        !.txn[p].targets = snapshot]
           ELSE conc' = [conc EXCEPT
                            !.txn[p].del[tbl] = @ \cup (gone \cap conc.db[tbl]),
                            !.txn[p].ins[tbl] = @ \ gone,
                            !.txn[p].waiting = FALSE,
                            !.txn[p].targets = {},
                            !.txn[p].k = IF x.k = Len(DerivedTables) THEN 0 ELSE x.k + 1,
                            !.txn[p].pc = IF x.k = Len(DerivedTables)
                                          THEN "flush_version" ELSE "delete"]
    /\ UNCHANGED non_conc_vars

\* the re-ingest branch: db.flush() writes the attributes of the version row
\* that differ from the loaded ones
FlushVersion(p) ==
    /\ conc.txn[p].pc = "flush_version"
    /\ LET x == conc.txn[p]
           loaded == CHOOSE v \in x.loaded : TRUE
           set_active == ~loaded.is_active
           set_name == loaded.source_filename # x.source_filename
           current == { v \in View(conc, p).versions : v.id = x.version_id }
           updated == { [v EXCEPT
                            !.is_active = IF set_active THEN TRUE ELSE @,
                            !.source_filename = IF set_name THEN x.source_filename
                                                ELSE @] : v \in current }
           nv == [View(conc, p) EXCEPT !.versions = (@ \ current) \cup updated]
       IN  IF set_active \/ set_name
           THEN /\ ~LockedByOther(conc, p, "versions", current)
                /\ conc' = [conc EXCEPT !.txn[p] = [Written(conc, p, nv) EXCEPT
                                                       !.pc = "load"]]
           ELSE conc' = [conc EXCEPT !.txn[p].pc = "load"]
    /\ UNCHANGED non_conc_vars

\* the first-ingest branch: UPDATE the drawing's active versions, then
\* db.add(DrawingVersion(...)); db.flush()
InsertVersion(p) ==
    /\ conc.txn[p].pc = "first"
    /\ LET x == conc.txn[p]
           view == View(conc, p)
           active == { v \in view.versions : v.drawing_id = x.drawing_id /\ v.is_active }
           nv == FirstIngest(view, x.drawing_id, conc.seq.versions, x.document_id,
                             x.source_filename, x.t)
           drawn == [conc EXCEPT !.seq.versions = @ + 1]
       IN  /\ ~LockedByOther(conc, p, "versions", active)
           /\ \A v \in WrittenByOthers(conc, p, "versions") :
                  /\ v.dwg_sha256 # x.document_id
                  /\ ~(v.drawing_id = x.drawing_id /\ v.is_active)
           /\ IF VersionHashTaken(view, x.document_id) \/ UqActiveViolated(nv.versions)
              THEN conc' = Rollback(drawn, p, "conflict")
              ELSE conc' = [drawn EXCEPT
                               !.txn[p] = [Written(conc, p, nv) EXCEPT
                                              !.version_id = conc.seq.versions,
                                              !.pc = "load"]]
    /\ UNCHANGED non_conc_vars

\* steps 3 to 5: the file rows, the entity loop, the summarizer call, the
\* DrawingSummary row and db.flush()
Load(p, out) ==
    /\ conc.txn[p].pc = "load"
    /\ \E ok \in ArtifactChoices :
        LET x == conc.txn[p]
            view == View(conc, p)
            files == AddFiles(FileTypes, ok, x.version_id, x.t)
            ex == _extract_dimensions_and_notes(x.version_id, ConcInput, x.t)
            summary_row ==
                [id |-> conc.seq.summaries, drawing_version_id |-> x.version_id,
                 long_form_description |-> out.long, short_description |-> out.short,
                 model_name |-> "summary_model", prompt_version |-> "1.0",
                 created_at |-> x.t]
            uq_summary == \E r \in view.summaries : r.drawing_version_id = x.version_id
            drawn == [conc EXCEPT
                         !.seq.files = @ + Len(files),
                         !.seq.dimensions = @ + Len(ex.dims),
                         !.seq.notes = @ + Len(ex.notes),
                         !.seq.summaries = @ + 1]
        IN  IF out.raised \/ ex.raised
            THEN conc' = Rollback(conc, p, "summary")
            ELSE /\ \A r \in WrittenByOthers(conc, p, "summaries") :
                        r.drawing_version_id # x.version_id
                 /\ IF uq_summary
                    THEN conc' = Rollback(drawn, p, "conflict")
                    ELSE conc' = [drawn EXCEPT
                            !.txn[p].ins.files = @ \cup WithIds(files, conc.seq.files),
                            !.txn[p].ins.dimensions =
                                @ \cup WithIds(ex.dims, conc.seq.dimensions),
                            !.txn[p].ins.notes = @ \cup WithIds(ex.notes, conc.seq.notes),
                            !.txn[p].ins.summaries = @ \cup {summary_row},
                            !.txn[p].summary_id = summary_row.id,
                            !.txn[p].pc = "embed"]
    /\ UNCHANGED non_conc_vars

\* step 6: the worklist of the rows the session sees, the awaited embedding
\* call, the Embedding rows
Embed(p, embed_ok) ==
    /\ conc.txn[p].pc = "embed"
    /\ LET x == conc.txn[p]
           view == View(conc, p)
       IN  \E dim_rows \in Orderings({ d \in view.dimensions :
                                         d.drawing_version_id = x.version_id }),
              note_rows \in Orderings({ n \in view.notes :
                                          n.drawing_version_id = x.version_id }) :
               LET summary_row == CHOOSE r \in view.summaries : r.id = x.summary_id
                   content_pieces == ContentPieces(summary_row, dim_rows, note_rows)
                   vectors == [i \in 1..Len(content_pieces) |->
                                  [j \in 1..EMBEDDING_DIM |-> i]]
                   rows == _generate_all_embeddings(x.version_id, content_pieces,
                                                    vectors, x.t)
               IN  conc' = IF embed_ok
                           THEN [conc EXCEPT !.txn[p].pending_embeddings = rows,
                                             !.txn[p].pc = "commit"]
                           ELSE Rollback(conc, p, "embedding")
    /\ UNCHANGED non_conc_vars

\* step 7: db.commit() inserts the Embedding rows and commits
CommitRun(p) ==
    /\ conc.txn[p].pc = "commit"
    /\ LET x == conc.txn[p]
           rows == WithIds(x.pending_embeddings, conc.seq.embeddings)
           nv == [View(conc, p) EXCEPT !.embeddings = @ \cup rows]
       IN  conc' = [conc EXCEPT
                       !.db = nv,
                       !.seq.embeddings = @ + Len(x.pending_embeddings),
                       !.txn[p] = NoTxn,
                       !.result[p] = [status |-> "ok", cause |-> "",
                                      document_id |-> x.document_id,
                                      overlap |-> x.overlap]]
    /\ UNCHANGED non_conc_vars

NextConc ==
    \/ \E p \in Procs, h \in Hashes : Begin(p, h)
    \/ \E p \in Procs : InsertDrawing(p)
    \/ \E p \in Procs : SelectVersion(p)
    \/ \E p \in Procs : DeleteDerived(p)
    \/ \E p \in Procs : FlushVersion(p)
    \/ \E p \in Procs : InsertVersion(p)
    \/ \E p \in Procs, out \in ConcSummaries : Load(p, out)
    \/ \E p \in Procs, embed_ok \in BOOLEAN : Embed(p, embed_ok)
    \/ \E p \in Procs : CommitRun(p)

SpecConc == Init /\ [][NextConc]_vars

\* C22: no two committed Drawing rows share a document hash and no two
\* committed DrawingVersion rows share a version hash, however the runs of
\* requests served at the same time interleave, and a run whose INSERT meets
\* a committed row with its hash fails and leaves the committed rows as they
\* were.
NoSharedHash == ~UqHashViolated(conc.db)

RunFails(p) ==
    /\ conc.txn[p].pc # "idle"
    /\ conc'.txn[p].pc = "idle"
    /\ conc'.result[p].status = "failed"

InsertMeetsHash(p) ==
    \/ /\ conc.txn[p].pc = "ins_drawing"
       /\ DrawingHashTaken(conc.db, conc.txn[p].document_id)
    \/ /\ conc.txn[p].pc = "first"
       /\ VersionHashTaken(conc.db, conc.txn[p].document_id)

ConflictFails ==
    \A p \in Procs :
        /\ RunFails(p) => conc'.db = conc.db
        /\ InsertMeetsHash(p) /\ conc'.txn[p].pc # conc.txn[p].pc => RunFails(p)

C22_HashesUnique == []NoSharedHash /\ [][ConflictFails]_vars

\* a run failed on the hash of a Drawing another run committed meanwhile
C22_Witness ==
    \E p \in Procs :
        /\ conc.result[p].status = "failed"
        /\ conc.result[p].cause = "conflict"
        /\ conc.result[p].document_id \in conc.result[p].overlap
        /\ DrawingHashTaken(conc.db, conc.result[p].document_id)
        /\ NoSharedHash


\* a row without its surrogate key
StripId(r) == [f \in DOMAIN r \ {"id"} |-> r[f]]

Elements(rows) == { rows[i] : i \in 1..Len(rows) }

\* the rows of a store that belong to the document with hash h
RowsOfHash(s, h) ==
    LET ids == { v.id : v \in { v \in s.versions : v.dwg_sha256 = h } }
    IN  [drawings |-> { d \in s.drawings : d.document_id_sha = h },
         versions |-> { v \in s.versions : v.dwg_sha256 = h },
         files |-> { r \in s.files : r.drawing_version_id \in ids },
         dimensions |-> { r \in s.dimensions : r.drawing_version_id \in ids },
         notes |-> { r \in s.notes : r.drawing_version_id \in ids },
         summaries |-> { r \in s.summaries : r.drawing_version_id \in ids },
         embeddings |-> { r \in s.embeddings : r.drawing_version_id \in ids }]

\* the rows of version_id in s are those one run of (h, f) at time t writes
\* when it runs alone, whatever their surrogate keys
WrittenAlone(s, h, f, version_id, t) ==
    LET own == RowsOfHash(s, h)
        files == UNION { Elements(AddFiles(FileTypes, ok, version_id, t)) :
                           ok \in ArtifactChoices }
        ex == _extract_dimensions_and_notes(version_id, ConcInput, t)
        chunks_of == { [source_type |-> e.source_type, source_ref_id |-> e.source_ref_id,
                        content |-> e.content] : e \in own.embeddings }
    IN  /\ Cardinality(own.drawings) = 1
        /\ Cardinality(own.versions) = 1
        /\ \A v \in own.versions :
              /\ v.id = version_id
              /\ v.is_active
              /\ v.source_filename = f
              /\ \E d \in own.drawings : d.id = v.drawing_id
        /\ { StripId(r) : r \in own.files } = files
        /\ Cardinality(own.files) = Cardinality(files)
        /\ { StripId(r) : r \in own.dimensions } = Elements(ex.dims)
        /\ Cardinality(own.dimensions) = Len(ex.dims)
        /\ { StripId(r) : r \in own.notes } = Elements(ex.notes)
        /\ Cardinality(own.notes) = Len(ex.notes)
        /\ Cardinality(own.summaries) = 1
        /\ \A r \in own.summaries :
              /\ r.long_form_description = JStr(<<"L">>)
              /\ r.short_description = JStr(<<"S">>)
              /\ r.created_at = t
        /\ \E dim_rows \in Orderings(own.dimensions),
              note_rows \in Orderings(own.notes) :
               LET pieces == ContentPieces(CHOOSE r \in own.summaries : TRUE,
                                           dim_rows, note_rows)
               IN  /\ Cardinality(own.embeddings) = Len(pieces)
                   /\ chunks_of = { [source_type |-> c.source_type,
                                     source_ref_id |-> c.ref_id,
                                     content |-> c.text] : c \in Elements(pieces) }
        /\ \A e \in own.embeddings : e.created_at = t

RunCommits(p) == conc.txn[p].pc = "commit" /\ conc'.txn[p].pc = "idle"

\* the run of p met no run for its own hash while it was in flight
MetOtherHashesOnly(x) == x.document_id \notin x.overlap

Independent ==
    \A p \in Procs :
        LET x == conc.txn[p] IN
        /\ RunFails(p) /\ MetOtherHashesOnly(x) => conc'.result[p].cause # "conflict"
        /\ RunCommits(p) /\ MetOtherHashesOnly(x) =>
               WrittenAlone(conc'.db, x.document_id, x.source_filename,
                            x.version_id, x.t)
        /\ conc'.txn[p].pc # conc.txn[p].pc =>
               \A h \in Hashes \ {x.document_id} :
                   RowsOfHash(conc'.db, h) = RowsOfHash(conc.db, h)

\* C23: a run that meets only runs for other hashes while it is in flight
\* never fails on a conflict, commits for its document exactly the rows it
\* writes when it runs alone (whatever their surrogate keys), and no step of
\* a run changes a committed row of a document with another hash.
C23_Independent == [][Independent]_vars

\* two runs for different hashes that were in flight together have both
\* committed
C23_Witness ==
    /\ \A p \in Procs :
          /\ conc.txn[p].pc = "idle"
          /\ conc.result[p].status = "ok"
          /\ conc.result[p].overlap # {}
          /\ conc.result[p].document_id \notin conc.result[p].overlap
    /\ conc.result[1].document_id # conc.result[2].document_id
    /\ \A h \in Hashes : RowsOfHash(conc.db, h).embeddings # {}

====
